---- MODULE Spec2Model ----
(***************************************************************************)
(* A model of the WeTalk realtime delivery fabric: the in-memory Hub       *)
(* (infrastructure/ws/hub.go), the RedisHub (infrastructure/ws/            *)
(* hub_redis.go), the websocket delivery handler (internal/delivery/      *)
(* websocket/handler.go) and the MemCache (infrastructure/cache/           *)
(* memcache.go).                                                           *)
(*                                                                         *)
(* Every goroutine of the program is a process of the model: the hub event *)
(* loop (one per instance), the Redis subscriber (one per RedisHub), the   *)
(* connection handler / reader pump and the writer pump (one per session), *)
(* and every SendToClient call (the fan-out goroutines of handleMessage,   *)
(* the subscriber's call, and calls through the IHub interface).  A step   *)
(* of the model is a piece of code that runs without a point at which       *)
(* another goroutine can observe or change the shared state it touches.    *)
(***************************************************************************)
EXTENDS Integers, Sequences, FiniteSets, Bags, TLC

(* ------------------------------------------------------------------ *)
(* Universe                                                            *)
(* ------------------------------------------------------------------ *)

None == "none"

Users == {"A", "B", "C"}

\* users.name of each user in the user repository.
NameOf(u) == IF u = "A" THEN "Alice" ELSE IF u = "B" THEN "Bob" ELSE "Carol"

\* Sessions are *UserClient values; each is built for one user id.
Sessions == {"a1", "a2", "b1"}

UserOf(s) == IF s = "b1" THEN "B" ELSE "A"

Servers == {"S1", "S2"}

HubKinds == {"mem", "redis"}

\* Capacity of a session's outbound channel (client.send).
QueueCap == 1

\* Number of calls (SendToClient, Broadcast, a repeated UnregisterClient)
\* that callers other than the connection handlers make through the IHub
\* interface.
MaxApiCalls == 2

\* Number of SendToClient calls made through the IHub interface while two
\* instances run.
MaxBusCalls == 1

\* The OutgoingMessage a caller of the IHub interface hands to the hub.
ApiPayload ==
    [messageId |-> 0, chatId |-> "", userId |-> "x", userName |-> "x",
     message |-> "p", timestamp |-> 0, isRead |-> FALSE]

\* An inbound frame, by the JSON fields it carries; a field that is absent
\* decodes to its zero value ("" is written 0 for a message id).  form is
\* "object" for a JSON object whose fields have the types of the structs,
\* "id not string" for a JSON object whose messageId is not a string, and
\* "not json" for bytes that are no JSON object.
NoFrame ==
    [form |-> "object", messageId |-> 0, chatId |-> "", message |-> "",
     timestamp |-> 0]

VARIABLES
    hubKind,      \* which IHub implementation main() built
    instances,    \* the instances (processes) that are running
    clients,      \* clients[h]: the map user id -> *UserClient, as a set of entries
    send,         \* send[s]: the buffered content of the channel client.send
    closeCount,   \* closeCount[s]: how often close(client.send) was executed
    hub,          \* hub[h]: position of the event loop Run() of instance h
    bcast,        \* bcast[h]: content of the channel h.broadcast
    presence,     \* presence[u]: value of the Redis key user:{u}:server
    inbox,        \* inbox[h]: envelopes delivered to h's pattern subscription
    sub,          \* sub[h]: position of subscribeRedis of instance h
    senders,      \* the SendToClient calls in progress
    cliPc,        \* cliPc[s]: position of the connection handler of session s
    cliSrv,       \* cliSrv[s]: the instance that serves session s
    isOnline,     \* isOnline[u]: users.isOnline in the user repository
    panicked,     \* the runtime panic that ended the process, if any
    hookCount,    \* hookCount[s]: invocations of OnClientUnregister(s)
    apiCalls,     \* calls made through the IHub interface by other callers
    replaced,     \* sessions overwritten in the table by a later registration
    wrongRemoved, \* sessions removed by the unregistration of another session
    outLog,       \* bag of the outcomes of the SendToClient calls
    chats,        \* ids of the documents of the collection "chats"
    participants, \* participants[c]: user ids of chat_participants of chat c
    store,        \* the documents of the collection "messages"
    created,      \* every message document as it was when it was inserted
    cur,          \* cur[s]: the frame handleMessage is handling for session s
    frameCount,   \* inbound frames read so far
    handled,      \* the frames handleMessage has returned from, and how
    items,        \* MemCache.items at the key: address of the *item, 0 if none
    heap,         \* the item objects allocated so far, by address
    incr,         \* incr[p]: the Increment call of goroutine p
    gets,         \* gets[g]: the Get call of goroutine g
    stored0,      \* the item Set had stored at the key before the calls
    polHub,       \* polHub[k]: table, queues, closed queues of the hub of kind k
    polSeen,      \* sessions that have been registered with the two hubs
    polGone,      \* sessions that have been unregistered from the two hubs
    polOps,       \* calls made so far on the two hubs
    tokens,       \* tokens[t]: the refresh_tokens document with token t
    refresh,      \* refresh[p]: the RefreshToken call goroutine p is running
    authLog,      \* what the RefreshToken calls returned
    loggedOut,    \* tokens that Logout or LogoutAllDevices has revoked
    authOps,      \* calls of the auth usecase made so far
    chatDocs,     \* the collection chats, in insertion order
    partDocs,     \* the collection chat_participants, in insertion order
    invDocs,      \* the collection chat_invitations, in insertion order
    chatCall,     \* chatCall[p]: the chat usecase call goroutine p is running
    chatLog,      \* what the chat usecase calls returned
    chatOps       \* calls of the chat usecase made so far

\* What main() fixes for the whole run.
config == <<hubKind, instances>>

hubVars == <<config, clients, send, closeCount, hub, bcast, presence,
                   inbox, sub, senders, cliPc, cliSrv, isOnline, panicked,
                   hookCount, apiCalls, replaced, wrongRemoved, outLog>>

\* The repositories and the state of handleMessage.
delivVars == <<chats, participants, store, created, cur, frameCount, handled>>

\* The MemCache and the calls made on it.
cacheVars == <<items, heap, incr, gets, stored0>>

\* A Hub and a RedisHub that are given the same calls.
policyVars == <<polHub, polSeen, polGone, polOps>>

\* What the steps of the hub and of the delivery handler do not touch, and
\* what the steps of the MemCache do not touch.
\* The collection refresh_tokens and the calls of the auth usecase.
authVars == <<tokens, refresh, authLog, loggedOut, authOps>>

\* The collections of the chat repository and the calls of the chat
\* usecase.
chatVars == <<chatDocs, partDocs, invDocs, chatCall, chatLog, chatOps>>

besideHub == <<cacheVars, policyVars, authVars, chatVars>>

besideCache == <<hubVars, delivVars, policyVars, authVars, chatVars>>

besidePolicy == <<hubVars, delivVars, cacheVars, authVars, chatVars>>

besideAuth == <<hubVars, delivVars, cacheVars, policyVars, chatVars>>

besideChat == <<hubVars, delivVars, cacheVars, policyVars, authVars>>

vars == <<hubVars, delivVars, cacheVars, policyVars, authVars, chatVars>>

(* ------------------------------------------------------------------ *)
(* The client table: a Go map[string]*UserClient                       *)
(* ------------------------------------------------------------------ *)

\* h.clients[k], with the "ok" result as a non-empty set.
MapGet(m, k) == {e \in m : e.key = k}

MapHas(m, k) == MapGet(m, k) # {}

MapSess(m, k) == (CHOOSE e \in MapGet(m, k) : TRUE).sess

\* h.clients[k] = s : an assignment replaces the value stored under k.
MapPut(m, k, s) == {e \in m : e.key # k} \cup {[key |-> k, sess |-> s]}

\* delete(h.clients, k)
MapDelete(m, k) == {e \in m : e.key # k}

\* The serverID an instance was configured with (SERVER_ID).
ServerID(h) == h

Closed(s) == closeCount[s] > 0

Idle == [op |-> "idle", sess |-> None, todo |-> {}, msg |-> ApiPayload]

SubIdle == [pc |-> "recv", to |-> None, from |-> None, payload |-> ApiPayload]

\* Hub.SendToClient keeps the read lock until it returns (defer RUnlock);
\* RedisHub.SendToClient releases it right after the lookup.
HoldsRLockAcrossEnqueue(kind) == kind = "mem"

\* A runtime panic ends the process: nothing runs after it.
Running == panicked = None

\* The SendToClient calls that hold h.mu.RLock.
ReadersOf(h) == {c \in senders : c.srv = h /\ c.locked}

\* h.mu.Lock() succeeds only when no reader holds the lock.
CanLock(h) == ReadersOf(h) = {}

(* ------------------------------------------------------------------ *)
(* Initial state: main() has built the hub and started Run()           *)
(* ------------------------------------------------------------------ *)

\* The participant lists chat c1 may have been created with.
ParticipantLists == {{}, {"A", "B"}, {"A", "B", "C"}}

\* handleMessage is not running.
NoCur == [frame |-> NoFrame, msgId |-> 0, online |-> {}]

\* main() builds NewHub() when REDIS_ADDR is unset and NewRedisHub(addr,
\* SERVER_ID) otherwise, and starts Run().
InitHub(kind, running, lists) ==
    /\ hubKind = kind
    /\ instances = running
    /\ clients = [h \in Servers |-> {}]
    /\ send = [s \in Sessions |-> <<>>]
    /\ closeCount = [s \in Sessions |-> 0]
    /\ hub = [h \in Servers |-> Idle]
    /\ bcast = [h \in Servers |-> <<>>]
    /\ presence = [u \in Users |-> None]
    /\ inbox = [h \in Servers |-> <<>>]
    /\ sub = [h \in Servers |-> SubIdle]
    /\ senders = {}
    /\ cliPc = [s \in Sessions |-> "new"]
    /\ cliSrv = [s \in Sessions |-> None]
    /\ isOnline = [u \in Users |-> FALSE]
    /\ panicked = None
    /\ hookCount = [s \in Sessions |-> 0]
    /\ apiCalls = 0
    /\ replaced = {}
    /\ wrongRemoved = {}
    /\ outLog = EmptyBag
    /\ chats = {"c1"}
    /\ participants \in [{"c1"} -> lists]
    /\ store = {}
    /\ created = {}
    /\ cur = [s \in Sessions |-> NoCur]
    /\ frameCount = 0
    /\ handled = {}

\* Concurrent Increment calls, and concurrent Get calls, on one key of the
\* MemCache.
MaxIncrements == 2

MaxGets == 1

IncProcs == 1..MaxIncrements

GetProcs == 1..MaxGets

\* A value of type any: its dynamic type and, for an integer, the number.
Val(type, n) == [type |-> type, n |-> n]

NoVal == Val("nil", 0)

\* A call that has not been made.
NoCall == [pc |-> "idle", item |-> 0, delta |-> 0, ret |-> NoVal,
           err |-> None, ok |-> FALSE]

\* No item: the key is not in the map.
NoItem == [value |-> NoVal, expiration |-> "absent", mu |-> 0]

\* NewMemCache: an empty map; nobody calls the cache.
CacheUnused ==
    /\ items = 0
    /\ heap = <<>>
    /\ incr = [p \in IncProcs |-> NoCall]
    /\ gets = [g \in GetProcs |-> NoCall]
    /\ stored0 = NoItem

\* The pair of hubs that are compared, as NewHub and NewRedisHub build
\* them: empty tables.
NewHub ==
    [table |-> {}, send |-> [s \in Sessions |-> <<>>], closed |-> {},
     panicked |-> FALSE]

PolicyStart ==
    /\ polHub = [k \in HubKinds |-> NewHub]
    /\ polSeen = {}
    /\ polGone = {}
    /\ polOps = 0

\* Refresh tokens, as the collection holds them: the token string stands
\* for the document; a token that was never created has no document.
MaxTokens == 4

TokenIds == 1..MaxTokens

NoDoc == [userId |-> None, isRevoked |-> FALSE, expired |-> FALSE]

\* The goroutines that call RefreshToken.
RefProcs == {"r1", "r2"}

NoRefresh == [pc |-> "idle", token |-> 0, userId |-> None]

\* Users A and B have logged in once each: tokens 1 and 2.
AuthStart ==
    /\ tokens = [t \in TokenIds |->
                   IF t = 1 THEN [NoDoc EXCEPT !.userId = "A"]
                   ELSE IF t = 2 THEN [NoDoc EXCEPT !.userId = "B"]
                   ELSE NoDoc]
    /\ refresh = [p \in RefProcs |-> NoRefresh]
    /\ authLog = {}
    /\ loggedOut = {}
    /\ authOps = 0

\* The goroutines that call the chat usecase.
ChatProcs == {"q1", "q2"}

NoChatCall ==
    [pc |-> "idle", op |-> "none", user |-> None, other |-> None, id |-> 0,
     accept |-> FALSE, call |-> 0]

\* A document of chat_participants as AddParticipants inserts it.
Participant(chatId, userId, role) ==
    [chatId |-> chatId, userId |-> userId, role |-> role, isActive |-> TRUE]

\* The store after CreateGroupChat by user A and InviteUsersToGroup of
\* user B: group chat 1 with A as its admin, and invitation 1 of B to
\* chat 1, pending.
ChatStart ==
    /\ chatDocs = <<[type |-> "group", createdBy |-> "A"]>>
    /\ partDocs = <<Participant(1, "A", "admin")>>
    /\ invDocs = <<[chatId |-> 1, inviterId |-> "A", inviteeId |-> "B",
                    status |-> "pending"]>>
    /\ chatCall = [p \in ChatProcs |-> NoChatCall]
    /\ chatLog = {}
    /\ chatOps = 0

\* One instance, with either hub.
Init ==
    /\ \E kind \in HubKinds : InitHub(kind, {"S1"}, {{"A", "B"}})
    /\ CacheUnused
    /\ PolicyStart
    /\ AuthStart
    /\ ChatStart


(* ------------------------------------------------------------------ *)
(* Connection handler: WebsocketHandler.HandleWebSocket                *)
(* ------------------------------------------------------------------ *)

\* userUc.Get succeeds, the upgrade succeeds, the user is stored as online
\* and the handler reaches RegisterClient, where it blocks until the event
\* loop receives from h.Register.  (A failed Get, upgrade or Update returns
\* before anything is registered and changes nothing.)
HandleWebSocket(s, h) ==
    /\ Running
    /\ cliPc[s] = "new"
    /\ h \in instances
    /\ isOnline' = [isOnline EXCEPT ![UserOf(s)] = TRUE]
    /\ cliSrv' = [cliSrv EXCEPT ![s] = h]
    /\ cliPc' = [cliPc EXCEPT ![s] = "registering"]
    /\ UNCHANGED <<config, besideHub, delivVars, clients, send, closeCount, hub, bcast, presence,
                   inbox, sub, senders, panicked, hookCount, apiCalls,
                   replaced, wrongRemoved, outLog>>

\* ReadPump ends (read error or close) and sends the session to
\* h.Unregister, once.
ReaderTerminate(s) ==
    /\ Running
    /\ cliPc[s] = "reading"
    /\ cliPc' = [cliPc EXCEPT ![s] = "unregistering"]
    /\ UNCHANGED <<config, besideHub, delivVars, clients, send, closeCount, hub, bcast, presence,
                   inbox, sub, senders, cliSrv, isOnline, panicked,
                   hookCount, apiCalls, replaced, wrongRemoved, outLog>>

\* IHub.UnregisterClient called once more for a session whose first
\* unregistration the loop has already received.
UnregisterClientAgain(s) ==
    /\ Running
    /\ cliPc[s] = "gone"
    /\ apiCalls < MaxApiCalls
    /\ apiCalls' = apiCalls + 1
    /\ cliPc' = [cliPc EXCEPT ![s] = "unregistering"]
    /\ UNCHANGED <<config, besideHub, delivVars, clients, send, closeCount, hub, bcast, presence,
                   inbox, sub, senders, cliSrv, isOnline, panicked,
                   hookCount, replaced, wrongRemoved, outLog>>

\* WritePump takes the next payload off client.send and writes it to the
\* connection; a closed channel is drained before the pump ends.
WritePump(s) ==
    /\ Running
    /\ cliPc[s] \in {"reading", "unregistering", "gone"}
    /\ send[s] # <<>>
    /\ send' = [send EXCEPT ![s] = Tail(@)]
    /\ UNCHANGED <<config, besideHub, delivVars, clients, closeCount, hub, bcast, presence,
                   inbox, sub, senders, cliPc, cliSrv, isOnline, panicked,
                   hookCount, apiCalls, replaced, wrongRemoved, outLog>>

(* ------------------------------------------------------------------ *)
(* The event loop: Hub.Run and RedisHub.Run                            *)
(* ------------------------------------------------------------------ *)

\* case client := <-h.Register  (the sender's RegisterClient returns here)
HubRecvRegister(h, s) ==
    /\ Running
    /\ hub[h].op = "idle"
    /\ cliPc[s] = "registering"
    /\ cliSrv[s] = h
    /\ hub' = [hub EXCEPT ![h] = [Idle EXCEPT !.op = "register", !.sess = s]]
    /\ cliPc' = [cliPc EXCEPT ![s] = "reading"]
    /\ UNCHANGED <<config, besideHub, delivVars, clients, send, closeCount, bcast, presence,
                   inbox, sub, senders, cliSrv, isOnline, panicked,
                   hookCount, apiCalls, replaced, wrongRemoved, outLog>>

\* A table that kept every registered client, as a list would.
RegisterInsert_Append(m, s) == m \cup {[key |-> UserOf(s), sess |-> s]}

\* The table after the register branch has run for client s.
RegisterInsert(m, s) == MapPut(m, UserOf(s), s)

\* h.mu.Lock(); h.clients[client.UserId] = client; h.mu.Unlock()
HubRegister(h) ==
    /\ Running
    /\ hub[h].op = "register"
    /\ CanLock(h)
    /\ LET s == hub[h].sess
           old == {e.sess : e \in MapGet(clients[h], UserOf(s))} \ {s}
       IN /\ clients' = [clients EXCEPT ![h] = RegisterInsert(@, s)]
          /\ replaced' = replaced \cup old
          /\ hub' = [hub EXCEPT ![h] =
                        IF hubKind = "redis"
                        THEN [Idle EXCEPT !.op = "presence", !.sess = s]
                        ELSE Idle]
    /\ UNCHANGED <<config, besideHub, delivVars, send, closeCount, bcast, presence, inbox, sub,
                   senders, cliPc, cliSrv, isOnline, panicked, hookCount,
                   apiCalls, wrongRemoved, outLog>>

\* h.redisClient.Set(ctx, "user:"+client.UserId+":server", h.serverID, 0)
HubPresenceSet(h) ==
    /\ Running
    /\ hub[h].op = "presence"
    /\ presence' = [presence EXCEPT ![UserOf(hub[h].sess)] = ServerID(h)]
    /\ hub' = [hub EXCEPT ![h] = Idle]
    /\ UNCHANGED <<config, besideHub, delivVars, clients, send, closeCount, bcast, inbox, sub,
                   senders, cliPc, cliSrv, isOnline, panicked, hookCount,
                   apiCalls, replaced, wrongRemoved, outLog>>

\* case client := <-h.Unregister  (the sender's UnregisterClient returns here)
HubRecvUnregister(h, s) ==
    /\ Running
    /\ hub[h].op = "idle"
    /\ cliPc[s] = "unregistering"
    /\ cliSrv[s] = h
    /\ hub' = [hub EXCEPT ![h] = [Idle EXCEPT !.op = "unregister", !.sess = s]]
    /\ cliPc' = [cliPc EXCEPT ![s] = "gone"]
    /\ UNCHANGED <<config, besideHub, delivVars, clients, send, closeCount, bcast, presence,
                   inbox, sub, senders, cliSrv, isOnline, panicked,
                   hookCount, apiCalls, replaced, wrongRemoved, outLog>>

\* if _, ok := h.clients[client.UserId]; ok
UnregisterFinds(m, s) == MapHas(m, UserOf(s))

\* h.mu.Lock()
\* if _, ok := h.clients[client.UserId]; ok {
\*     delete(h.clients, client.UserId); close(client.send)
\*     (RedisHub: h.redisClient.Del(ctx, "user:"+client.UserId+":server")) }
\* h.mu.Unlock()
\* Closing a channel that is already closed panics, after the delete and
\* before the Del.
HubUnregister(h) ==
    /\ Running
    /\ hub[h].op = "unregister"
    /\ CanLock(h)
    /\ LET s == hub[h].sess
           u == UserOf(s)
       IN IF UnregisterFinds(clients[h], s)
          THEN /\ clients' = [clients EXCEPT ![h] = MapDelete(@, u)]
               /\ wrongRemoved' = wrongRemoved \cup
                      ({e.sess : e \in MapGet(clients[h], u)} \ {s})
               /\ closeCount' = [closeCount EXCEPT ![s] = @ + 1]
               /\ panicked' = IF Closed(s) THEN "close of closed channel"
                              ELSE panicked
               /\ presence' = IF hubKind = "redis" /\ ~Closed(s)
                              THEN [presence EXCEPT ![u] = None]
                              ELSE presence
          ELSE UNCHANGED <<clients, wrongRemoved, closeCount, panicked, presence>>
    /\ hub' = [hub EXCEPT ![h].op = "hook"]
    /\ UNCHANGED <<config, besideHub, delivVars, send, bcast, inbox, sub, senders, cliPc, cliSrv,
                   isOnline, hookCount, apiCalls, replaced, outLog>>

\* if h.OnClientUnregister != nil { h.OnClientUnregister(client) }
\* The call follows the locked section whether or not the client was found.
\* The hook is userUc.HandleUnregisterClient: the user is stored as offline.
HubUnregisterHook(h) ==
    /\ Running
    /\ hub[h].op = "hook"
    /\ LET s == hub[h].sess
       IN /\ hookCount' = [hookCount EXCEPT ![s] = @ + 1]
          /\ isOnline' = [isOnline EXCEPT ![UserOf(s)] = FALSE]
    /\ hub' = [hub EXCEPT ![h] = Idle]
    /\ UNCHANGED <<config, besideHub, delivVars, clients, send, closeCount, bcast, presence,
                   inbox, sub, senders, cliPc, cliSrv, panicked, apiCalls,
                   replaced, wrongRemoved, outLog>>


\* Capacity of the channel h.broadcast.
BroadcastCap == 256

\* IHub.Broadcast: h.broadcast <- message
Broadcast(h) ==
    /\ Running
    /\ h \in instances
    /\ apiCalls < MaxApiCalls
    /\ Len(bcast[h]) < BroadcastCap
    /\ bcast' = [bcast EXCEPT ![h] = Append(@, ApiPayload)]
    /\ apiCalls' = apiCalls + 1
    /\ UNCHANGED <<config, besideHub, delivVars, clients, send, closeCount, hub, presence, inbox,
                   sub, senders, cliPc, cliSrv, isOnline, panicked,
                   hookCount, replaced, wrongRemoved, outLog>>

\* case message := <-h.broadcast ; h.mu.RLock() ; the range over h.clients
\* starts.  Only the loop itself changes the table while it iterates.
HubRecvBroadcast(h) ==
    /\ Running
    /\ hub[h].op = "idle"
    /\ bcast[h] # <<>>
    /\ bcast' = [bcast EXCEPT ![h] = Tail(@)]
    /\ hub' = [hub EXCEPT ![h] =
                  IF clients[h] = {} THEN Idle
                  ELSE [Idle EXCEPT !.op = "broadcast", !.todo = clients[h],
                                    !.msg = Head(bcast[h])]]
    /\ UNCHANGED <<config, besideHub, delivVars, clients, send, closeCount, presence, inbox, sub,
                   senders, cliPc, cliSrv, isOnline, panicked, hookCount,
                   apiCalls, replaced, wrongRemoved, outLog>>

\* The default branch of the broadcast select: Hub.Run closes the queue and
\* deletes the entry; RedisHub.broadcastLocal only logs.
BroadcastEvicts(kind) == kind = "mem"

\* One iteration of the range over h.clients:
\*   select { case client.send <- message: ; default: ... }
\* Hub.Run deletes from the map while holding only the read lock: a
\* SendToClient that reads the map at the same time is a data race, which
\* the Go runtime may end with a fatal error.
HubBroadcastStep(h, e) ==
    /\ Running
    /\ hub[h].op = "broadcast"
    /\ e \in hub[h].todo
    /\ LET s == e.sess
           rest == hub[h].todo \ {e}
           racing == \E c \in senders : c.srv = h /\ c.phase = "lookup"
       IN /\ hub' = [hub EXCEPT ![h] =
                        IF rest = {} THEN Idle ELSE [@ EXCEPT !.todo = rest]]
          /\ IF Closed(s)
             THEN /\ panicked' = "send on closed channel"
                  /\ UNCHANGED <<send, clients, closeCount>>
             ELSE IF Len(send[s]) < QueueCap
             THEN /\ send' = [send EXCEPT ![s] = Append(@, hub[h].msg)]
                  /\ UNCHANGED <<clients, closeCount, panicked>>
             ELSE IF BroadcastEvicts(hubKind)
             THEN /\ closeCount' = [closeCount EXCEPT ![s] = @ + 1]
                  /\ clients' = [clients EXCEPT ![h] = MapDelete(@, e.key)]
                  /\ panicked' \in
                        IF racing
                        THEN {None, "concurrent map read and map write"}
                        ELSE {None}
                  /\ UNCHANGED send
             ELSE UNCHANGED <<send, clients, closeCount, panicked>>
    /\ UNCHANGED <<config, besideHub, delivVars, bcast, presence, inbox, sub, senders, cliPc,
                   cliSrv, isOnline, hookCount, apiCalls, replaced,
                   wrongRemoved, outLog>>

(* ------------------------------------------------------------------ *)
(* SendToClient: Hub.SendToClient and RedisHub.SendToClient            *)
(* ------------------------------------------------------------------ *)

\* A SendToClient call in progress: who made it (owner: a session's
\* handleMessage, the subscriber, or another caller), for which inbound
\* frame, and where the payload came from (from: "local", or the
\* fromServerId of the envelope).
Sender(id, h, u, p, from, owner, frame) ==
    [id |-> id, srv |-> h, target |-> u, payload |-> p, from |-> from,
     owner |-> owner, frame |-> frame, phase |-> "lookup", sess |-> None,
     locked |-> FALSE]

\* What the outcome log records of a SendToClient call that ended with
\* result r.
Outcome(c, r) ==
    [srv |-> c.srv, sess |-> c.sess, target |-> c.target, from |-> c.from,
     owner |-> c.owner, payload |-> c.payload, frame |-> c.frame,
     result |-> r,
     inTable |-> [key |-> c.target, sess |-> c.sess] \in clients[c.srv]]

Logged(c, r) == outLog (+) SetToBag({Outcome(c, r)})

\* The enqueues SendToClient has made.
Enqueues == {e \in BagToSet(outLog) : e.result = "enqueued"}

\* The goroutine that made the call goes on when the call returns.
Return(c) ==
    /\ senders' = senders \ {c}
    /\ sub' = IF c.owner = "sub" THEN [sub EXCEPT ![c.srv] = SubIdle] ELSE sub

\* The payload of the i-th call made through the IHub interface: callers
\* hand over different byte strings.
ApiPayloadOf(i) == [ApiPayload EXCEPT !.timestamp = i]

\* A call of SendToClient(u, payload) through the IHub interface, one of
\* at most max calls.
SendToClient(h, u, max) ==
    /\ Running
    /\ h \in instances
    /\ apiCalls < max
    /\ apiCalls' = apiCalls + 1
    /\ senders' = senders \cup
           {Sender(apiCalls + 1, h, u, ApiPayloadOf(apiCalls + 1), "local",
                   "api", NoFrame)}
    /\ UNCHANGED <<config, besideHub, delivVars, clients, send, closeCount, hub, bcast, presence,
                   inbox, sub, cliPc, cliSrv, isOnline, panicked, hookCount,
                   replaced, wrongRemoved, outLog>>

\* h.mu.RLock(); client, exists := h.clients[userID]
\* Hub: not found returns.  RedisHub: h.mu.RUnlock() follows at once and
\* not found takes the slow path, publishToRedis.
SendLookup(c) ==
    /\ Running
    /\ c \in senders
    /\ c.phase = "lookup"
    /\ LET m == clients[c.srv]
       IN IF MapHas(m, c.target)
          THEN /\ senders' = (senders \ {c}) \cup
                     {[c EXCEPT !.phase = "enqueue",
                                !.sess = MapSess(m, c.target),
                                !.locked = HoldsRLockAcrossEnqueue(hubKind)]}
               /\ UNCHANGED <<sub, outLog>>
          ELSE IF hubKind = "redis"
          THEN /\ senders' = (senders \ {c}) \cup
                     {[c EXCEPT !.phase = "publish"]}
               /\ UNCHANGED <<sub, outLog>>
          ELSE /\ Return(c)
               /\ outLog' = Logged(c, "absent")
    /\ UNCHANGED <<config, besideHub, delivVars, clients, send, closeCount, hub, bcast,
                   presence, inbox, cliPc, cliSrv, isOnline, panicked,
                   hookCount, apiCalls, replaced, wrongRemoved>>

\* The send case of the select is ready: the buffered channel has room.
HasRoom_Always(q) == TRUE

HasRoom(q) == Len(q) < QueueCap

\* select { case client.send <- message: ; default: log }
\* A send on a closed channel panics.
SendEnqueue(c) ==
    /\ Running
    /\ c \in senders
    /\ c.phase = "enqueue"
    /\ IF Closed(c.sess)
       THEN /\ panicked' = "send on closed channel"
            /\ UNCHANGED <<send, outLog>>
       ELSE IF HasRoom(send[c.sess])
       THEN /\ send' = [send EXCEPT ![c.sess] = Append(@, c.payload)]
            /\ outLog' = Logged(c, "enqueued")
            /\ UNCHANGED panicked
       ELSE /\ outLog' = Logged(c, "full")
            /\ UNCHANGED <<send, panicked>>
    /\ Return(c)
    /\ UNCHANGED <<config, besideHub, delivVars, clients, closeCount, hub, bcast,
                   presence, inbox, cliPc, cliSrv, isOnline, hookCount,
                   apiCalls, replaced, wrongRemoved>>

\* The pattern subscription of instance h is open: Redis hands it what is
\* published.
Subscribed(h) == h \in instances /\ sub[h].pc # "ended"

\* RedisMessage{FromServerID: h.serverID, ToUserID: userID, Payload: message}
Envelope_Anonymous(h, u, p) == [from |-> "", to |-> u, payload |-> p]

Envelope(h, u, p) == [from |-> ServerID(h), to |-> u, payload |-> p]

\* publishToRedis: Publish on "messages:"+userID reaches the pattern
\* subscription "messages:*" of every instance, the publisher's included;
\* an error is logged and nothing is published.
SendPublish(c, ok) ==
    /\ Running
    /\ c \in senders
    /\ c.phase = "publish"
    /\ inbox' = IF ok
                THEN [h \in Servers |->
                        IF Subscribed(h)
                        THEN Append(inbox[h],
                                    Envelope(c.srv, c.target, c.payload))
                        ELSE inbox[h]]
                ELSE inbox
    /\ outLog' = Logged(c, IF ok THEN "published" ELSE "publish failed")
    /\ Return(c)
    /\ UNCHANGED <<config, besideHub, delivVars, clients, send, closeCount, hub, bcast,
                   presence, cliPc, cliSrv, isOnline, panicked, hookCount,
                   apiCalls, replaced, wrongRemoved>>

(* ------------------------------------------------------------------ *)
(* The subscriber: RedisHub.subscribeRedis                             *)
(* ------------------------------------------------------------------ *)

\* A subscriber without the loopback test.
IsLoopback_Never(h, env) == FALSE

\* if redisMsg.FromServerID == h.serverID { continue }
IsLoopback(h, env) == env.from = ServerID(h)

\* for msg := range ch { json.Unmarshal ; the loopback test }
SubRecv(h) ==
    /\ Running
    /\ hubKind = "redis"
    /\ sub[h].pc = "recv"
    /\ inbox[h] # <<>>
    /\ inbox' = [inbox EXCEPT ![h] = Tail(@)]
    /\ LET env == Head(inbox[h])
       IN sub' = IF IsLoopback(h, env) THEN sub
                 ELSE [sub EXCEPT ![h] = [pc |-> "check", to |-> env.to,
                                          from |-> env.from,
                                          payload |-> env.payload]]
    /\ UNCHANGED <<config, besideHub, delivVars, clients, send, closeCount, hub, bcast, presence,
                   senders, cliPc, cliSrv, isOnline, panicked, hookCount,
                   apiCalls, replaced, wrongRemoved, outLog>>

\* The channel of the subscription is closed: `for msg := range ch` has
\* taken what was buffered and ends, and subscribeRedis returns.  Run
\* started it with one go statement and nothing starts it again.
SubStreamEnds(h) ==
    /\ Running
    /\ hubKind = "redis"
    /\ h \in instances
    /\ sub[h].pc = "recv"
    /\ inbox[h] = <<>>
    /\ sub' = [sub EXCEPT ![h].pc = "ended"]
    /\ UNCHANGED <<config, besideHub, delivVars, clients, send, closeCount, hub, bcast,
                   presence, inbox, senders, cliPc, cliSrv, isOnline,
                   panicked, hookCount, apiCalls, replaced, wrongRemoved,
                   outLog>>

\* h.mu.RLock(); _, existsLocally := h.clients[redisMsg.ToUserID];
\* h.mu.RUnlock(); if !existsLocally { continue }
\* h.SendToClient(redisMsg.ToUserID, redisMsg.Payload)
SubCheck(h) ==
    /\ Running
    /\ sub[h].pc = "check"
    /\ IF MapHas(clients[h], sub[h].to)
       THEN /\ sub' = [sub EXCEPT ![h].pc = "send"]
            /\ senders' = senders \cup
                   {Sender(0, h, sub[h].to, sub[h].payload, sub[h].from,
                           "sub", NoFrame)}
       ELSE /\ sub' = [sub EXCEPT ![h] = SubIdle]
            /\ UNCHANGED senders
    /\ UNCHANGED <<config, besideHub, delivVars, clients, send, closeCount, hub, bcast, presence,
                   inbox, cliPc, cliSrv, isOnline, panicked, hookCount,
                   apiCalls, replaced, wrongRemoved, outLog>>

(* ------------------------------------------------------------------ *)
(* WebsocketHandler.handleMessage: the callback of ReadPump            *)
(* ------------------------------------------------------------------ *)

\* Inbound frames read from all connections together.
MaxFrames == 2

\* The frames a connection may carry: two messages for chat c1, a message
\* for a chat that does not exist, and a read acknowledgment.
Frames ==
    {[form |-> "object", messageId |-> 0, chatId |-> "c1", message |-> "hi",
      timestamp |-> 100],
     [form |-> "object", messageId |-> 0, chatId |-> "c1", message |-> "yo",
      timestamp |-> 200],
     [form |-> "object", messageId |-> 0, chatId |-> "c0", message |-> "hi",
      timestamp |-> 100],
     [form |-> "object", messageId |-> 1, chatId |-> "c1", message |-> "",
      timestamp |-> 0]}

\* Frames that are not of the two documented shapes: one with a messageId
\* and a message text, one whose messageId is a JSON number, one that is
\* no JSON, and one with neither messageId nor text.
OddFrames ==
    {[form |-> "object", messageId |-> 1, chatId |-> "c1", message |-> "hi",
      timestamp |-> 100],
     [form |-> "id not string", messageId |-> 1, chatId |-> "c1",
      message |-> "hi", timestamp |-> 100],
     [form |-> "not json", messageId |-> 0, chatId |-> "", message |-> "",
      timestamp |-> 0],
     [form |-> "object", messageId |-> 0, chatId |-> "c1", message |-> "",
      timestamp |-> 0]}

\* json.Unmarshal(data, &readAck) succeeded and readAck.MessageId != "".
\* Unmarshal fails on bytes that are no JSON and on a messageId that is
\* not a string.
IsReadAck_AnyId(f) == f.messageId # 0

IsReadAck(f) == f.form = "object" /\ f.messageId # 0

\* json.Unmarshal(data, &message) succeeded: IncomingMessage has no
\* messageId field, so its type does not matter.
ParsesAsMessage(f) == f.form # "not json"

\* message.Id = uuid.New().String(): an id no document has.
NewId == Cardinality(created) + 1

\* What a frame handleMessage has returned from leaves in the history.
Handled(s, f, id, path, online) ==
    [sess |-> s, frame |-> f, msgId |-> id, path |-> path, online |-> online]

\* messageUc.MarkAsRead: Get, set IsRead, Update.  A missing document is
\* an error that is logged.
MarkAsRead_Never(st, id) == st

MarkAsRead(st, id) ==
    {IF m.id = id THEN [m EXCEPT !.isRead = TRUE] ELSE m : m \in st}

\* The read-acknowledgment path of handleMessage.
HandleReadAcknowledgment(s, f) ==
    /\ Running
    /\ cliPc[s] = "reading"
    /\ frameCount < MaxFrames
    /\ IsReadAck(f)
    /\ frameCount' = frameCount + 1
    /\ store' = MarkAsRead(store, f.messageId)
    /\ handled' = handled \cup {Handled(s, f, f.messageId, "ack", {})}
    /\ UNCHANGED <<hubVars, besideHub, chats, participants, created, cur>>

\* The entity.Message handed to SaveMessage, with the id Create gives it.
NewMessage(s, f, id) ==
    [id |-> id, chatId |-> f.chatId, senderId |-> UserOf(s),
     message |-> f.message, timestamp |-> f.timestamp, isRead |-> FALSE]

\* if err != nil { log; return } after SaveMessage.
SaveFailed_Ignored(saveOk) == FALSE

SaveFailed(saveOk) == ~saveOk

\* chatUc.Get(ctx, message.ChatId) returns no error: the chat is stored.
ChatFound_Always(cs, chatId) == TRUE

ChatFound(cs, chatId) == chatId \in cs

\* The message path up to SaveMessage: chatUc.Get, userUc.Get of the
\* sender, messageUc.SaveMessage.  Each error returns; senderOk is whether
\* the sender's user document is read, saveOk is whether the insert
\* succeeds, and messageId is "" when it does not.
HandleMessageSave(s, f, senderOk, saveOk) ==
    /\ Running
    /\ cliPc[s] = "reading"
    /\ frameCount < MaxFrames
    /\ ~IsReadAck(f)
    /\ frameCount' = frameCount + 1
    /\ IF ~ParsesAsMessage(f)
       THEN /\ handled' = handled \cup {Handled(s, f, 0, "unknown", {})}
            /\ UNCHANGED <<store, created, cur, cliPc>>
       ELSE IF ~ChatFound(chats, f.chatId)
       THEN /\ handled' = handled \cup {Handled(s, f, 0, "no chat", {})}
            /\ UNCHANGED <<store, created, cur, cliPc>>
       ELSE IF ~senderOk
       THEN /\ handled' = handled \cup {Handled(s, f, 0, "no sender", {})}
            /\ UNCHANGED <<store, created, cur, cliPc>>
       ELSE /\ store' = IF saveOk THEN store \cup {NewMessage(s, f, NewId)}
                                 ELSE store
            /\ created' = IF saveOk
                          THEN created \cup {NewMessage(s, f, NewId)}
                          ELSE created
            /\ IF SaveFailed(saveOk)
               THEN /\ handled' = handled \cup
                           {Handled(s, f, 0, "save failed", {})}
                    /\ UNCHANGED <<cur, cliPc>>
               ELSE /\ cur' = [cur EXCEPT ![s] =
                                 [frame |-> f,
                                  msgId |-> IF saveOk THEN NewId ELSE 0,
                                  online |-> {}]]
                    /\ cliPc' = [cliPc EXCEPT ![s] = "saved"]
                    /\ UNCHANGED handled
    /\ UNCHANGED <<config, besideHub, clients, send, closeCount, hub, bcast, presence,
                   inbox, sub, senders, cliSrv, isOnline, panicked,
                   hookCount, apiCalls, replaced, wrongRemoved, outLog,
                   chats, participants>>

\* userRepo.GetOnlineUser: the users of userIds with isOnline true.
GetOnlineUser_All(userIds) == userIds

GetOnlineUser(userIds) == {u \in userIds : isOnline[u]}

\* The OutgoingMessage of the fan-out.  ChatId is not among the fields the
\* struct literal sets.
OutgoingMessage_Read(s, f, id) ==
    [messageId |-> id, chatId |-> "", userId |-> UserOf(s),
     userName |-> NameOf(UserOf(s)), message |-> f.message,
     timestamp |-> f.timestamp, isRead |-> TRUE]

OutgoingMessage(s, f, id) ==
    [messageId |-> id, chatId |-> "", userId |-> UserOf(s),
     userName |-> NameOf(UserOf(s)), message |-> f.message,
     timestamp |-> f.timestamp, isRead |-> FALSE]

\* chatRepo.Delete: DeleteOne on the collection "chats" by _id.
Delete_Nothing(cs, chatId) == cs

Delete(cs, chatId) == cs \ {chatId}

\* The participants the fan-out sends to: every one but the sender.
Recipients_All(s, ps) == ps

Recipients(s, ps) == {u \in ps : u # UserOf(s)}

\* After SaveMessage: GetParticipants; a chat without participants is
\* deleted; GetOnlineUser; one goroutine per participant other than the
\* sender, which calls SendToClient when the participant is online.
HandleMessageFanOut(s) ==
    /\ Running
    /\ cliPc[s] = "saved"
    /\ LET f == cur[s].frame
           ps == participants[f.chatId]
           online == GetOnlineUser(ps)
       IN IF ps = {}
          THEN /\ chats' = Delete(chats, f.chatId)
               /\ handled' = handled \cup
                      {Handled(s, f, cur[s].msgId, "empty chat", {})}
               /\ cur' = [cur EXCEPT ![s] = NoCur]
               /\ cliPc' = [cliPc EXCEPT ![s] = "reading"]
               /\ UNCHANGED senders
          ELSE /\ senders' = senders \cup
                      {Sender(0, cliSrv[s], u,
                              OutgoingMessage(s, f, cur[s].msgId),
                              "local", s, f) :
                          u \in Recipients(s, ps) \cap online}
               /\ cur' = [cur EXCEPT ![s].online = online]
               /\ cliPc' = [cliPc EXCEPT ![s] = "fanout"]
               /\ UNCHANGED <<chats, handled>>
    /\ UNCHANGED <<config, besideHub, clients, send, closeCount, hub, bcast, presence,
                   inbox, sub, cliSrv, isOnline, panicked, hookCount,
                   apiCalls, replaced, wrongRemoved, outLog, participants,
                   store, created, frameCount>>

\* wg.Wait() returns: every goroutine of the fan-out has called wg.Done().
FanOutDone_NoWait(s) == TRUE

FanOutDone(s) == \A c \in senders : c.owner # s

\* wg.Wait(): every goroutine of the fan-out has returned.
HandleMessageJoin(s) ==
    /\ Running
    /\ cliPc[s] = "fanout"
    /\ FanOutDone(s)
    /\ handled' = handled \cup
           {Handled(s, cur[s].frame, cur[s].msgId, "sent", cur[s].online)}
    /\ cur' = [cur EXCEPT ![s] = NoCur]
    /\ cliPc' = [cliPc EXCEPT ![s] = "reading"]
    /\ UNCHANGED <<config, besideHub, clients, send, closeCount, hub, bcast, presence,
                   inbox, sub, senders, cliSrv, isOnline, panicked,
                   hookCount, apiCalls, replaced, wrongRemoved, outLog,
                   chats, participants, store, created, frameCount>>

(* ------------------------------------------------------------------ *)
(* The hub under the calls of the IHub interface                       *)
(* ------------------------------------------------------------------ *)

\* The connections opened while the hub is driven through its interface:
\* user A connects, and connects again.
Reconnecting == {"a1", "a2"}

Next ==
    \/ \E s \in Reconnecting, h \in Servers : HandleWebSocket(s, h)
    \/ \E s \in Sessions : ReaderTerminate(s)
    \/ \E s \in Sessions : UnregisterClientAgain(s)
    \/ \E s \in Sessions : WritePump(s)
    \/ \E h \in Servers, s \in Sessions : HubRecvRegister(h, s)
    \/ \E h \in Servers : HubRegister(h)
    \/ \E h \in Servers : HubPresenceSet(h)
    \/ \E h \in Servers, s \in Sessions : HubRecvUnregister(h, s)
    \/ \E h \in Servers : HubUnregister(h)
    \/ \E h \in Servers : HubUnregisterHook(h)
    \/ \E h \in Servers : Broadcast(h)
    \/ \E h \in Servers : HubRecvBroadcast(h)
    \/ \E h \in Servers : \E e \in hub[h].todo : HubBroadcastStep(h, e)
    \/ \E h \in Servers, u \in Users : SendToClient(h, u, MaxApiCalls)
    \/ \E c \in senders : SendLookup(c)
    \/ \E c \in senders : SendEnqueue(c)
    \/ \E c \in senders, ok \in BOOLEAN : SendPublish(c, ok)
    \/ \E h \in Servers : SubRecv(h)

Spec == Init /\ [][Next]_vars


(* ------------------------------------------------------------------ *)
(* Two RedisHub instances on one bus                                   *)
(* ------------------------------------------------------------------ *)

InitBus ==
    /\ InitHub("redis", Servers, {{"A", "B"}})
    /\ CacheUnused
    /\ PolicyStart
    /\ AuthStart
    /\ ChatStart

\* The connections opened in the two-instance runs: one per user, each on
\* either instance.
Connecting == {"a1", "b1"}

NextBus ==
    \/ \E s \in Connecting, h \in Servers : HandleWebSocket(s, h)
    \/ \E s \in Sessions : ReaderTerminate(s)
    \/ \E s \in Sessions : WritePump(s)
    \/ \E h \in Servers, s \in Sessions : HubRecvRegister(h, s)
    \/ \E h \in Servers : HubRegister(h)
    \/ \E h \in Servers : HubPresenceSet(h)
    \/ \E h \in Servers, s \in Sessions : HubRecvUnregister(h, s)
    \/ \E h \in Servers : HubUnregister(h)
    \/ \E h \in Servers : HubUnregisterHook(h)
    \/ \E h \in Servers, u \in Users : SendToClient(h, u, MaxBusCalls)
    \/ \E c \in senders : SendLookup(c)
    \/ \E c \in senders : SendEnqueue(c)
    \/ \E c \in senders, ok \in BOOLEAN : SendPublish(c, ok)
    \/ \E h \in Servers : SubRecv(h)
    \/ \E h \in Servers : SubCheck(h)

SpecBus == InitBus /\ [][NextBus]_vars

(* ------------------------------------------------------------------ *)
(* Two RedisHub instances, A on S1 and B on S2, sessions that stay     *)
(* ------------------------------------------------------------------ *)

\* The instance each connection of the cross-instance runs is made to.
HomeOf(s) == IF s = "b1" THEN "S2" ELSE "S1"

NextCross ==
    \/ \E s \in Connecting : HandleWebSocket(s, HomeOf(s))
    \/ \E s \in Sessions : WritePump(s)
    \/ \E h \in Servers, s \in Sessions : HubRecvRegister(h, s)
    \/ \E h \in Servers : HubRegister(h)
    \/ \E h \in Servers : HubPresenceSet(h)
    \/ \E h \in Servers, u \in Users : SendToClient(h, u, MaxBusCalls)
    \/ \E c \in senders : SendLookup(c)
    \/ \E c \in senders : SendEnqueue(c)
    \/ \E c \in senders : SendPublish(c, TRUE)
    \/ \E h \in Servers : SubRecv(h)
    \/ \E h \in Servers : SubCheck(h)

\* The Go scheduler runs every runnable goroutine: a SendToClient call and
\* the subscriber loop go on, and Redis delivers to a subscribed channel.
FairCross ==
    /\ WF_vars(\E c \in senders : SendLookup(c))
    /\ WF_vars(\E c \in senders : SendEnqueue(c))
    /\ WF_vars(\E c \in senders : SendPublish(c, TRUE))
    /\ \A h \in Servers : WF_vars(SubRecv(h)) /\ WF_vars(SubCheck(h))

SpecCross == InitBus /\ [][NextCross]_vars /\ FairCross

(* ------------------------------------------------------------------ *)
(* One instance with users A and B sending frames                      *)
(* ------------------------------------------------------------------ *)

NextDelivery ==
    \/ \E s \in Connecting : HandleWebSocket(s, "S1")
    \/ \E s \in Sessions : ReaderTerminate(s)
    \/ \E s \in Sessions : WritePump(s)
    \/ \E s \in Sessions : HubRecvRegister("S1", s)
    \/ HubRegister("S1")
    \/ HubPresenceSet("S1")
    \/ \E s \in Sessions : HubRecvUnregister("S1", s)
    \/ HubUnregister("S1")
    \/ HubUnregisterHook("S1")
    \/ \E s \in Sessions, f \in Frames : HandleReadAcknowledgment(s, f)
    \/ \E s \in Sessions, f \in Frames, senderOk, ok \in BOOLEAN :
          HandleMessageSave(s, f, senderOk, ok)
    \/ \E s \in Sessions : HandleMessageFanOut(s)
    \/ \E s \in Sessions : HandleMessageJoin(s)
    \/ \E c \in senders : SendLookup(c)
    \/ \E c \in senders : SendEnqueue(c)
    \/ \E c \in senders, ok \in BOOLEAN : SendPublish(c, ok)
    \/ SubRecv("S1")

InitDelivery ==
    /\ \E kind \in HubKinds : InitHub(kind, {"S1"}, ParticipantLists)
    /\ CacheUnused
    /\ PolicyStart
    /\ AuthStart
    /\ ChatStart

SpecDelivery == InitDelivery /\ [][NextDelivery]_vars

(* ------------------------------------------------------------------ *)
(* One instance, connections that come and go, a fair event loop       *)
(* ------------------------------------------------------------------ *)

NextTeardown ==
    \/ \E s \in Sessions : HandleWebSocket(s, "S1")
    \/ \E s \in Sessions : ReaderTerminate(s)
    \/ \E s \in Sessions : HubRecvRegister("S1", s)
    \/ HubRegister("S1")
    \/ HubPresenceSet("S1")
    \/ \E s \in Sessions : HubRecvUnregister("S1", s)
    \/ HubUnregister("S1")
    \/ HubUnregisterHook("S1")

\* The event loop goroutine is scheduled: it takes what is sent to its
\* channels and runs each case to its end.
FairTeardown ==
    /\ WF_vars(\E s \in Sessions : HubRecvRegister("S1", s))
    /\ WF_vars(HubRegister("S1"))
    /\ WF_vars(HubPresenceSet("S1"))
    /\ WF_vars(\E s \in Sessions : HubRecvUnregister("S1", s))
    /\ WF_vars(HubUnregister("S1"))
    /\ WF_vars(HubUnregisterHook("S1"))

SpecTeardown == Init /\ [][NextTeardown]_vars /\ FairTeardown

(* ------------------------------------------------------------------ *)
(* Two RedisHub instances whose subscription streams may end           *)
(* ------------------------------------------------------------------ *)

NextResub ==
    \/ NextCross
    \/ \E h \in Servers : SubStreamEnds(h)

SpecResub == InitBus /\ [][NextResub]_vars /\ FairCross

(* ------------------------------------------------------------------ *)
(* Two RedisHub instances, connections that come and go                *)
(* ------------------------------------------------------------------ *)

NextPresence ==
    \/ \E s \in Sessions, h \in Servers : HandleWebSocket(s, h)
    \/ \E s \in Sessions : ReaderTerminate(s)
    \/ \E h \in Servers, s \in Sessions : HubRecvRegister(h, s)
    \/ \E h \in Servers : HubRegister(h)
    \/ \E h \in Servers : HubPresenceSet(h)
    \/ \E h \in Servers, s \in Sessions : HubRecvUnregister(h, s)
    \/ \E h \in Servers : HubUnregister(h)
    \/ \E h \in Servers : HubUnregisterHook(h)

SpecPresence == InitBus /\ [][NextPresence]_vars

(* ------------------------------------------------------------------ *)
(* One instance, sessions that stay, frames of every shape             *)
(* ------------------------------------------------------------------ *)

NextFrames ==
    \/ \E s \in Connecting : HandleWebSocket(s, "S1")
    \/ \E s \in Sessions : WritePump(s)
    \/ \E s \in Sessions : HubRecvRegister("S1", s)
    \/ HubRegister("S1")
    \/ HubPresenceSet("S1")
    \/ \E s \in Sessions, f \in Frames \cup OddFrames :
          HandleReadAcknowledgment(s, f)
    \/ \E s \in Sessions, f \in Frames \cup OddFrames,
             senderOk, ok \in BOOLEAN :
          HandleMessageSave(s, f, senderOk, ok)
    \/ \E s \in Sessions : HandleMessageFanOut(s)
    \/ \E s \in Sessions : HandleMessageJoin(s)
    \/ \E c \in senders : SendLookup(c)
    \/ \E c \in senders : SendEnqueue(c)
    \/ \E c \in senders, ok \in BOOLEAN : SendPublish(c, ok)
    \/ SubRecv("S1")

SpecFrames == Init /\ [][NextFrames]_vars

(* ------------------------------------------------------------------ *)
(* Properties of the hub                                               *)
(* ------------------------------------------------------------------ *)

\* The sessions the table of instance h holds for user u.
SessionsOf(h, u) == {e.sess : e \in {x \in clients[h] : UserOf(x.sess) = u}}

\* C1: on every instance the client table holds at most one session for
\* any user id, whatever RegisterClient, UnregisterClient, Broadcast and
\* SendToClient calls were made, with the Hub and with the RedisHub.
C1_SingleSessionPerUser ==
    \A h \in Servers, u \in Users : Cardinality(SessionsOf(h, u)) <= 1

\* User A registered twice: the second session is in the table, the first
\* was overwritten.
C1_Witness ==
    \E h \in Servers :
        /\ [key |-> "A", sess |-> "a2"] \in clients[h]
        /\ "a1" \in replaced

\* C2: OnClientUnregister runs exactly once for every registered session:
\* never twice, and not zero times once the session has ended and the loop
\* has finished with it.
C2_HookExactlyOnce ==
    \A s \in Sessions :
        /\ hookCount[s] <= 1
        /\ (cliPc[s] = "gone" /\ \A h \in Servers : hub[h].sess # s)
               => hookCount[s] >= 1

\* C3: every enqueue SendToClient(u, p) makes goes into the queue of the
\* session that is the table's entry for u at the moment of the enqueue.
C3_NoDeliveryToAbsent ==
    \A e \in Enqueues : e.inTable

\* C4: a RedisHub never enqueues into a local session's queue a payload
\* that came in a bus envelope whose fromServerId is its own serverID.
C4_LoopbackSuppressed ==
    \A e \in Enqueues : e.from # ServerID(e.srv)

\* S1 has published an envelope for a user who has since registered on S1,
\* has received it back (S2 still has it waiting) and has dropped it.
C4_Witness ==
    /\ inbox["S1"] = <<>>
    /\ sub["S1"].pc = "recv"
    /\ inbox["S2"] # <<>>
    /\ Head(inbox["S2"]).from = ServerID("S1")
    /\ MapHas(clients["S1"], Head(inbox["S2"]).to)
    /\ senders = {}

\* C7: when a user registers with a second session while the first is in
\* the table, the first is drained (queue closed, hook run) by the time the
\* second is inserted, a later unregistration of the first does not remove
\* the second, and no queue is closed twice.
C7_ReRegisterDrainsPrior ==
    /\ \A s \in replaced : Closed(s) /\ hookCount[s] >= 1
    /\ wrongRemoved = {}
    /\ \A s \in Sessions : closeCount[s] <= 1

\* The event loop of h is at the unregistration of a session whose first
\* unregistration it has already handled.
SecondUnregisterStep(h) ==
    /\ hub[h].op \in {"unregister", "hook"}
    /\ hookCount[hub[h].sess] >= 1
    /\ hub'[h] # hub[h]

\* C8: handling a second Unregister of a session changes neither the client
\* table, nor a queue, nor the presence directory, nor the user's online
\* flag, and does not run the hook again.
C8_SecondUnregisterNoOp ==
    [][(\E h \in Servers : SecondUnregisterStep(h))
         => UNCHANGED <<clients, send, closeCount, presence, isOnline,
                        hookCount>>]_vars

(* ------------------------------------------------------------------ *)
(* Message delivery                                                    *)
(* ------------------------------------------------------------------ *)

\* The SendToClient calls handleMessage has made: those in progress and
\* those that have ended.
HandlerCalls ==
    {c \in senders : c.owner \in Sessions} \cup
    {o \in BagToSet(outLog) : o.owner \in Sessions}

\* The message document the payload p of a call for frame f of session s
\* stands for was inserted, with is_read false, and is in the store.
Persisted(p, f, s) ==
    /\ p.messageId # 0
    /\ [id |-> p.messageId, chatId |-> f.chatId, senderId |-> UserOf(s),
        message |-> p.message, timestamp |-> p.timestamp,
        isRead |-> FALSE] \in created
    /\ \E m \in store : m.id = p.messageId

\* C5: every outbound frame handleMessage hands to SendToClient has its
\* message persisted already (same chat, sender, text and timestamp,
\* is_read false at creation); an inbound frame whose SaveMessage failed
\* produces no outbound frame.
C5_PersistBeforeFanOut ==
    /\ \A c \in HandlerCalls : Persisted(c.payload, c.frame, c.owner)
    /\ \A s \in Sessions :
          cliPc[s] \in {"saved", "fanout"} =>
              \E m \in store : m.id = cur[s].msgId

C5_Witness ==
    /\ \E r \in handled : r.path = "save failed"
    /\ \E c \in senders : c.owner \in Sessions /\ c.phase = "enqueue"

\* C6: handleMessage never calls SendToClient with the sender as target,
\* and no session of the sender gets the outbound frame of its own
\* message, even with the sender a participant and online.
C6_SenderExcluded ==
    /\ \A c \in HandlerCalls : c.target # UserOf(c.owner)
    /\ \A o \in Enqueues :
          o.payload.userId \in Users => UserOf(o.sess) # o.payload.userId

C6_Witness ==
    \E r \in handled :
        /\ r.path = "sent"
        /\ UserOf(r.sess) \in participants[r.frame.chatId] \cap r.online
        /\ \E o \in Enqueues : o.payload.messageId = r.msgId

\* The outcomes of the SendToClient calls made for message id.
OutcomesOf(id) == {o \in BagToSet(outLog) : o.payload.messageId = id}

\* C9: on one instance with the in-memory hub and a chat of A and B, a
\* message frame from A, with B online, makes one SendToClient call: to B,
\* with userId A, the text and timestamp of the frame, isRead false and a
\* non-empty messageId; it is enqueued once to B's queue unless B is not
\* registered or the queue is full; nothing goes to A; and the store has
\* exactly one new message.
C9_LocalOneToOne ==
    \A r \in handled :
        (/\ r.path = "sent"
         /\ hubKind = "mem"
         /\ UserOf(r.sess) = "A"
         /\ participants[r.frame.chatId] = {"A", "B"}
         /\ "B" \in r.online)
        =>
        /\ r.msgId # 0
        /\ Cardinality(OutcomesOf(r.msgId)) = 1
        /\ \A o \in OutcomesOf(r.msgId) :
              /\ CopiesIn(o, outLog) = 1
              /\ o.target = "B"
              /\ o.result \in {"enqueued", "full", "absent"}
              /\ o.result = "enqueued" => UserOf(o.sess) = "B"
              /\ o.payload.userId = "A"
              /\ o.payload.message = r.frame.message
              /\ o.payload.timestamp = r.frame.timestamp
              /\ o.payload.isRead = FALSE
        /\ Cardinality({m \in store : m.id = r.msgId}) = 1
        /\ Cardinality(store) =
              Cardinality({x \in handled : x.path \in {"sent", "empty chat"}})
              + Cardinality({s \in Sessions :
                                cliPc[s] \in {"saved", "fanout"}})

C9_Witness ==
    \E r \in handled :
        /\ r.path = "sent"
        /\ hubKind = "mem"
        /\ r.sess = "a1"
        /\ participants[r.frame.chatId] = {"A", "B"}
        /\ r.frame.message = "hi"
        /\ \E o \in Enqueues :
              o.payload.messageId = r.msgId /\ o.sess = "b1"

\* C10: every outbound frame handleMessage builds has the chatId of the
\* inbound frame, the assigned messageId, the sender's userId and display
\* name, the client's timestamp and isRead false.
C10_AllSevenFields ==
    \A c \in HandlerCalls :
        /\ c.payload.chatId = c.frame.chatId
        /\ c.payload.messageId # 0
        /\ c.payload.userId = UserOf(c.owner)
        /\ c.payload.userName = NameOf(UserOf(c.owner))
        /\ c.payload.message = c.frame.message
        /\ c.payload.timestamp = c.frame.timestamp
        /\ c.payload.isRead = FALSE

(* ------------------------------------------------------------------ *)
(* Cross-instance delivery                                             *)
(* ------------------------------------------------------------------ *)

\* The i-th call is SendToClient("B", p) on S1, about to look B up, while
\* B is registered on S2.
CrossCall(i) ==
    /\ MapHas(clients["S2"], "B")
    /\ \E c \in senders :
          /\ c.id = i /\ c.owner = "api" /\ c.srv = "S1" /\ c.target = "B"
          /\ c.phase = "lookup"

\* The outcomes of the calls that carried the payload of the i-th call.
ApiOutcomes(i, r) ==
    {o \in BagToSet(outLog) : o.payload = ApiPayloadOf(i) /\ o.result = r}

\* S2 has put the payload of the i-th call to B's queue (the enqueue is
\* non-blocking: with the queue full the payload is dropped).
CrossDelivered(i) ==
    /\ \E o \in ApiOutcomes(i, "published") :
          o.srv = "S1" /\ o.target = "B"
    /\ \E o \in ApiOutcomes(i, "enqueued") \cup ApiOutcomes(i, "full") :
          o.srv = "S2" /\ o.sess = "b1" /\ o.from = ServerID("S1")

\* No payload is published twice, or enqueued twice, or enqueued to a
\* session of another user than its target.
CrossOnce ==
    \A i \in 1..(MaxBusCalls + 1) :
        /\ \A o \in ApiOutcomes(i, "published") :
              /\ CopiesIn(o, outLog) = 1
              /\ \A e \in ApiOutcomes(i, "published") : e = o
        /\ \A o \in ApiOutcomes(i, "enqueued") :
              /\ CopiesIn(o, outLog) = 1
              /\ \A e \in ApiOutcomes(i, "enqueued") : e = o
              /\ UserOf(o.sess) = o.target
              /\ o.from # "local" => o.from # ServerID(o.srv)

\* C11: with A on S1 and B registered on S2 and staying, SendToClient(B, p)
\* on S1 publishes one envelope for B with fromServerId S1, and p is
\* eventually enqueued into B's queue on S2, once, and into no other queue.
C11_CrossInstanceDelivery ==
    /\ []CrossOnce
    /\ \A i \in 1..(MaxBusCalls + 1) : CrossCall(i) ~> CrossDelivered(i)

C11_Witness ==
    /\ \E o \in ApiOutcomes(1, "enqueued") :
          o.srv = "S2" /\ o.sess = "b1" /\ o.from = ServerID("S1")
    /\ \E o \in ApiOutcomes(1, "published") : o.srv = "S1"
    /\ inbox["S1"] = <<>>
    /\ inbox["S2"] = <<>>
    /\ senders = {}

(* ------------------------------------------------------------------ *)
(* Scenarios of the delivery handler                                   *)
(* ------------------------------------------------------------------ *)

\* The envelopes on the bus that carry the payload of message id.
EnvelopesOf(id) ==
    {env \in UNION {{inbox[h][k] : k \in 1..Len(inbox[h])} : h \in Servers} :
        env.payload.messageId = id}

\* The users the user repository has reported offline all along: those
\* without a connection.
NeverOnline == {u \in Users : ~isOnline[u] /\ \A s \in Sessions : UserOf(s) # u}

\* C12: for a message of A to a chat of A, B and C with only A and B
\* online, SendToClient is called for B only, nothing is enqueued or
\* published for C, and the message is persisted exactly once.
C12_OfflineRecipientSkipped ==
    /\ \A c \in HandlerCalls : c.target \notin NeverOnline
    /\ \A r \in handled :
          (/\ r.path = "sent"
           /\ UserOf(r.sess) = "A"
           /\ participants[r.frame.chatId] = {"A", "B", "C"}
           /\ "B" \in r.online
           /\ "C" \in NeverOnline)
          =>
          /\ Cardinality(OutcomesOf(r.msgId)) = 1
          /\ \A o \in OutcomesOf(r.msgId) :
                CopiesIn(o, outLog) = 1 /\ o.target = "B"
          /\ \A env \in EnvelopesOf(r.msgId) : env.to = "B"
          /\ \A s \in Sessions :
                \A k \in 1..Len(send[s]) :
                    send[s][k].messageId = r.msgId => UserOf(s) = "B"
          /\ Cardinality({m \in store : m.id = r.msgId}) = 1
          /\ Cardinality({m \in created : m.id = r.msgId}) = 1

C12_Witness ==
    \E r \in handled :
        /\ r.path = "sent"
        /\ r.sess = "a1"
        /\ participants[r.frame.chatId] = {"A", "B", "C"}
        /\ r.online = {"A", "B"}
        /\ ~isOnline["C"]
        /\ \E o \in Enqueues : o.payload.messageId = r.msgId /\ o.sess = "b1"

\* The call c of SendToClient is at its select with the target session's
\* queue open and full, and this step is the select of c.
SelectOnFullQueue(c) ==
    /\ c.phase = "enqueue"
    /\ ~Closed(c.sess)
    /\ Len(send[c.sess]) >= QueueCap
    /\ c \notin senders'

\* C13: when the target session's queue is full, SendToClient returns
\* without blocking and drops the payload; the client table, every queue
\* (content and open or closed) and the store stay as they are, and
\* nothing panics.
C13_FullQueueDrops ==
    [][\A c \in senders :
          SelectOnFullQueue(c) =>
              /\ outLog' = Logged(c, "full")
              /\ UNCHANGED <<clients, send, closeCount, panicked, store,
                             created, hookCount>>]_vars

C13_Witness ==
    /\ panicked = None
    /\ \E o \in BagToSet(outLog) :
          /\ o.result = "full"
          /\ o.owner \in Sessions
          /\ [key |-> o.target, sess |-> o.sess] \in clients[o.srv]
          /\ ~Closed(o.sess)
          /\ Len(send[o.sess]) = QueueCap
          /\ \A k \in 1..Len(send[o.sess]) :
                send[o.sess][k].messageId # o.payload.messageId
          /\ \E m \in store : m.id = o.payload.messageId

\* This step is handleMessage handling a frame with messageId id on the
\* read-acknowledgment path.
AckStep(id) ==
    /\ id # 0
    /\ frameCount' = frameCount + 1
    /\ \E r \in handled' \ handled : r.path = "ack" /\ r.frame.messageId = id

DecodesWithMessageId(f) ==
    f.form = "object" /\ f.messageId # 0

\* This step handled frame f of session s on the read-ack path: it leaves
\* the read-ack record and persists nothing.
TookAckPath(s, f) ==
    /\ handled' = handled \cup {Handled(s, f, f.messageId, "ack", {})}
    /\ created' = created
    /\ \A m \in store' : \E n \in store : n.id = m.id
    /\ UNCHANGED <<cur, cliPc, senders>>

\* This step handled frame f of session s on the message path: it marks
\* nothing read, and either returned on an error or persisted the message
\* and went on to the fan-out.
TookMessagePath(s, f) ==
    /\ store \subseteq store'
    /\ \/ /\ \E path \in {"unknown", "no chat", "no sender", "save failed"} :
                handled' = handled \cup {Handled(s, f, 0, path, {})}
          /\ UNCHANGED <<store, created, cur, cliPc>>
       \/ /\ handled' = handled
          /\ cur'[s].frame = f
          /\ cliPc'[s] = "saved"
          /\ store' = store \cup {NewMessage(s, f, cur'[s].msgId)}
          /\ created' = created \cup {NewMessage(s, f, cur'[s].msgId)}
          /\ Cardinality(created') = Cardinality(created) + 1

\* C15: every inbound frame is handled by exactly one path: the read-ack
\* path if and only if it decodes with a non-empty messageId, the message
\* path otherwise; a frame with a messageId persists no message and a
\* frame without one marks no message read.
C15_FrameClassification ==
    [][frameCount' # frameCount =>
          \E s \in Sessions, f \in Frames \cup OddFrames :
              /\ cliPc[s] = "reading"
              /\ IF DecodesWithMessageId(f)
                 THEN TookAckPath(s, f) /\ ~TookMessagePath(s, f)
                 ELSE TookMessagePath(s, f) /\ ~TookAckPath(s, f)]_vars

C15_Witness ==
    /\ \E r \in handled :
          /\ r.path = "ack"
          /\ r.frame.messageId = 1
          /\ r.frame.message = "hi"
    /\ \E s \in Sessions :
          /\ cliPc[s] = "saved"
          /\ cur[s].frame.form = "id not string"
    /\ Cardinality(created) = 1

(* ------------------------------------------------------------------ *)
(* Empty chats                                                         *)
(* ------------------------------------------------------------------ *)

\* The payloads in the outbound queues that carry message id.
QueuedOf(id) ==
    {<<s, k>> \in Sessions \X (1..QueueCap + 1) :
        k <= Len(send[s]) /\ send[s][k].messageId = id}

EventsStopped ==
    /\ \A h \in Servers : hub[h] = Idle
    /\ \A s \in Sessions : cliPc[s] \in {"new", "reading", "gone"}

\* The key user:{u}:server exists with value s exactly when u is in the
\* client table of instance s.
PresenceIsUnionOfTables ==
    \A u \in Users, h \in Servers :
        presence[u] = ServerID(h) <=> MapHas(clients[h], u)

\* C17: once register and unregister events have stopped, the presence
\* directory is the union of the client tables of the instances.
C17_PresenceConverges == EventsStopped => PresenceIsUnionOfTables

\* A connected to S1, then to S2, and the session on S1 was unregistered:
\* events have stopped with A in the table of S2 alone and no presence
\* key for A.
C17_Witness ==
    /\ EventsStopped
    /\ cliPc["a1"] = "gone" /\ cliSrv["a1"] = "S1" /\ hookCount["a1"] = 1
    /\ cliPc["a2"] = "reading" /\ cliSrv["a2"] = "S2"
    /\ ~MapHas(clients["S1"], "A")
    /\ [key |-> "A", sess |-> "a2"] \in clients["S2"]
    /\ presence["A"] = None

(* ------------------------------------------------------------------ *)
(* The subscription stream                                             *)
(* ------------------------------------------------------------------ *)

\* The i-th call is a SendToClient for a user in the local table of an
\* instance whose subscription stream has ended.
LocalCallWhileDown(i) ==
    \E c \in senders :
        /\ c.id = i /\ c.owner = "api" /\ c.phase = "enqueue"
        /\ sub[c.srv].pc = "ended"

\* C18: after the subscription stream of an instance has ended the
\* instance subscribes again, so that what is published afterwards for its
\* users reaches it; while the stream is down SendToClient to local users
\* still delivers.
C18_Resubscribes ==
    /\ \A h \in Servers : (sub[h].pc = "ended") ~> Subscribed(h)
    /\ \A i \in 1..(MaxBusCalls + 1) :
          LocalCallWhileDown(i) ~>
              (ApiOutcomes(i, "enqueued") \cup ApiOutcomes(i, "full") # {})

(* ------------------------------------------------------------------ *)
(* Teardown                                                            *)
(* ------------------------------------------------------------------ *)

\* The session is torn down: its queue is closed, it is in no client
\* table, and its user is stored as offline.
TornDown(s) ==
    /\ Closed(s)
    /\ \A h \in Servers : [key |-> UserOf(s), sess |-> s] \notin clients[h]
    /\ ~isOnline[UserOf(s)]

\* C19: once the reader of a registered session has ended and handed the
\* session to the unregister channel, the session is eventually torn down;
\* also each of two sessions of one user of which the newer was registered
\* before the unregister of the older was processed.
C19_TeardownLiveness ==
    \A s \in Sessions :
        (cliPc[s] = "unregistering") ~> TornDown(s)

(* ------------------------------------------------------------------ *)
(* Order of persistence                                                *)
(* ------------------------------------------------------------------ *)

\* The handling of the frame that made message n has ended: handleMessage
\* has returned from it.
HandlingEnded(n) ==
    \E r \in handled : r.msgId = n.id /\ r.path \in {"sent", "empty chat"}

\* C20: when the message of a frame of session s is persisted, every
\* message of an earlier frame of s was persisted before (it has a smaller
\* id in creation order) and its handling, fan-out join included, has
\* ended: the reader hands over the next frame only after handleMessage
\* has returned.
C20_PerSenderPersistOrder ==
    [][\A s \in Sessions :
          (cliPc'[s] = "saved" /\ cliPc[s] # "saved") =>
              /\ cliPc[s] = "reading"
              /\ \A c \in senders : c.owner # s
              /\ created' = created \cup
                     {NewMessage(s, cur'[s].frame, cur'[s].msgId)}
              /\ \A n \in created :
                    /\ n.id < cur'[s].msgId
                    /\ (\A x \in Sessions \ {s} : cur[x].msgId # n.id)
                           => HandlingEnded(n)]_vars

C20_Witness ==
    /\ \E r \in handled :
          r.sess = "a1" /\ r.path = "sent" /\ r.msgId = 1
                        /\ r.frame.message = "hi"
    /\ cur["a1"].msgId = 2
    /\ cur["a1"].frame.message = "yo"
    /\ Cardinality(created) = 2
    /\ \E o \in Enqueues : o.payload.messageId = 1

(* ------------------------------------------------------------------ *)
(* Order in a recipient's queue                                        *)
(* ------------------------------------------------------------------ *)

\* This step is the SendToClient call c of a handleMessage putting its
\* payload to the queue of its target's session.
FanOutEnqueue(c) ==
    /\ c.owner \in Sessions
    /\ c.phase = "enqueue"
    /\ outLog' = Logged(c, "enqueued")

\* The payloads of session `owner` that were put to the queue of session
\* r before now.
EarlierTo(owner, r) ==
    {o \in Enqueues : o.owner = owner /\ o.sess = r}

IntTypes == {"int", "int32", "int64", "uint", "uint32", "uint64"}

\* What Set may have stored at the key before the calls start.
InitialValues ==
    {Val("int64", 5), Val("int", 7), Val("string", 0), NoVal}

\* item.expiration against time.Now(), which does not move while the calls
\* run: no expiration (0), one that has passed, one that is still to come.
Expirations == {"none", "past", "future"}

\* The amounts the callers add.
Deltas == {1, 2}

\* &item{value: v, expiration: e}, its mutex unlocked.
Item(v, e) == [value |-> v, expiration |-> e, mu |-> 0]

\* it.isExpired()
IsExpired(it) == it.expiration = "past"

\* The key is absent, or holds an item that Set stored earlier.
InitCache ==
    /\ InitHub("mem", {"S1"}, {{"A", "B"}})
    /\ PolicyStart
    /\ AuthStart
    /\ ChatStart
    /\ incr = [p \in IncProcs |-> NoCall]
    /\ gets = [g \in GetProcs |-> NoCall]
    /\ \/ items = 0 /\ heap = <<>> /\ stored0 = NoItem
       \/ \E v \in InitialValues, e \in Expirations :
             items = 1 /\ heap = <<Item(v, e)>> /\ stored0 = Item(v, e)

\* A goroutine calls Increment(key, d).
IncCall(p, d) ==
    /\ incr[p].pc = "idle"
    /\ incr' = [incr EXCEPT ![p] = [NoCall EXCEPT !.pc = "load", !.delta = d]]
    /\ UNCHANGED <<besideCache, stored0, items, heap, gets>>

\* actual, _ := m.items.LoadOrStore(key, &item{value: int64(0)})
IncLoadOrStore(p) ==
    /\ incr[p].pc = "load"
    /\ IF items = 0
       THEN /\ heap' = Append(heap, Item(Val("int64", 0), "none"))
            /\ items' = Len(heap) + 1
            /\ incr' = [incr EXCEPT ![p].pc = "lock",
                                    ![p].item = Len(heap) + 1]
       ELSE /\ incr' = [incr EXCEPT ![p].pc = "lock", ![p].item = items]
            /\ UNCHANGED <<items, heap>>
    /\ UNCHANGED <<besideCache, stored0, gets>>

\* it.mu.Lock()
IncLock(p) ==
    /\ incr[p].pc = "lock"
    /\ heap[incr[p].item].mu = 0
    /\ heap' = [heap EXCEPT ![incr[p].item].mu = p]
    /\ incr' = [incr EXCEPT ![p].pc = "expiry"]
    /\ UNCHANGED <<besideCache, stored0, items, gets>>

\* if it.isExpired() { it.value = int64(0); it.expiration = 0 }
IncReset(p) ==
    /\ incr[p].pc = "expiry"
    /\ heap' = IF IsExpired(heap[incr[p].item])
               THEN [heap EXCEPT ![incr[p].item].value = Val("int64", 0),
                                 ![incr[p].item].expiration = "none"]
               ELSE heap
    /\ incr' = [incr EXCEPT ![p].pc = "switch"]
    /\ UNCHANGED <<besideCache, stored0, items, gets>>

\* The value the type switch stores for value v and amount d: an integer
\* keeps its type, nil becomes the int64 d, anything else stays.
Added(v, d) ==
    IF v.type \in IntTypes THEN Val(v.type, v.n + d)
    ELSE IF v.type = "nil" THEN Val("int64", d)
    ELSE v

\* The error of the default branch.
NotInteger(v) == v.type \notin IntTypes \cup {"nil"}

\* switch v := it.value.(type) { ... } ; the deferred it.mu.Unlock()
IncSwitch(p) ==
    /\ incr[p].pc = "switch"
    /\ LET i == incr[p].item
           v == heap[i].value
           d == incr[p].delta
       IN /\ heap' = [heap EXCEPT ![i].value = Added(v, d), ![i].mu = 0]
          /\ incr' = [incr EXCEPT
                 ![p].pc = "done",
                 ![p].ret = IF NotInteger(v) THEN Val("int64", 0)
                            ELSE Val("int64", Added(v, d).n),
                 ![p].err = IF NotInteger(v) THEN "ErrNotInteger" ELSE None]
    /\ UNCHANGED <<besideCache, stored0, items, gets>>

\* A goroutine calls Get(key):  v, ok := m.items.Load(key)
GetLoad(g) ==
    /\ gets[g].pc = "idle"
    /\ gets' = [gets EXCEPT ![g] =
                  IF items = 0 THEN [NoCall EXCEPT !.pc = "done"]
                  ELSE [NoCall EXCEPT !.pc = "check", !.item = items]]
    /\ UNCHANGED <<besideCache, stored0, items, heap, incr>>

\* if it.isExpired() { m.items.Delete(key); return nil, false }
\* The field is read without the item's mutex; Delete removes whatever the
\* key holds now.
GetCheck(g) ==
    /\ gets[g].pc = "check"
    /\ IF IsExpired(heap[gets[g].item])
       THEN /\ items' = 0
            /\ gets' = [gets EXCEPT ![g].pc = "done"]
       ELSE /\ gets' = [gets EXCEPT ![g].pc = "value"]
            /\ UNCHANGED items
    /\ UNCHANGED <<besideCache, stored0, heap, incr>>

\* return it.value, true
GetReturn(g) ==
    /\ gets[g].pc = "value"
    /\ gets' = [gets EXCEPT ![g].pc = "done",
                            ![g].ret = heap[gets[g].item].value,
                            ![g].ok = TRUE]
    /\ UNCHANGED <<besideCache, stored0, items, heap, incr>>

NextCache ==
    \/ \E p \in IncProcs, d \in Deltas : IncCall(p, d)
    \/ \E p \in IncProcs : IncLoadOrStore(p)
    \/ \E p \in IncProcs : IncLock(p)
    \/ \E p \in IncProcs : IncReset(p)
    \/ \E p \in IncProcs : IncSwitch(p)
    \/ \E g \in GetProcs : GetLoad(g)
    \/ \E g \in GetProcs : GetCheck(g)
    \/ \E g \in GetProcs : GetReturn(g)

SpecCache == InitCache /\ [][NextCache]_vars

(* ------------------------------------------------------------------ *)
(* Properties of the MemCache                                          *)
(* ------------------------------------------------------------------ *)

\* Every call that was made has returned, and every goroutine has called.
AllReturned ==
    /\ \A p \in IncProcs : incr[p].pc = "done"
    /\ \A g \in GetProcs : gets[g].pc = "done"

\* What the key held when the calls started, as Increment and Get see it:
\* an expired item counts as no item, and no item as nil.
InitialValue ==
    IF stored0 = NoItem THEN NoVal
    ELSE IF IsExpired(stored0) THEN NoVal
    ELSE stored0.value

RECURSIVE SumOfDeltas(_)
SumOfDeltas(ps) ==
    IF ps = {} THEN 0
    ELSE LET p == CHOOSE x \in ps : TRUE
         IN incr[p].delta + SumOfDeltas(ps \ {p})

\* C22: once n concurrent Increment calls and the Get calls on the key
\* have returned, an integer (or absent) key holds its initial value plus
\* the amounts added, every call returned without error, and the values
\* returned differ; a key with a non-integer value holds it unchanged and
\* every Increment returned ErrNotInteger.
C22_IncrementNoLostUpdate ==
    AllReturned =>
        IF NotInteger(InitialValue)
        THEN /\ \A p \in IncProcs : incr[p].err = "ErrNotInteger"
             /\ items # 0
             /\ heap[items].value = InitialValue
        ELSE /\ \A p \in IncProcs : incr[p].err = None
             /\ items # 0
             /\ heap[items].value.n = InitialValue.n + SumOfDeltas(IncProcs)
             /\ \A p, q \in IncProcs :
                   p # q => incr[p].ret # incr[q].ret

\* The key held an expired item; Get deleted the map entry between the
\* LoadOrStore and the update of one Increment, and the other Increment
\* then made a new item: two Increment(key, 1) have returned 1 and the key
\* holds 1.
C22_Witness ==
    /\ AllReturned
    /\ stored0 # NoItem
    /\ IsExpired(stored0)
    /\ \A p \in IncProcs :
          incr[p].delta = 1 /\ incr[p].err = None /\ incr[p].ret.n = 1
    /\ items # 0
    /\ heap[items].value = Val("int64", 1)

(* ------------------------------------------------------------------ *)
(* Sends and closes                                                    *)
(* ------------------------------------------------------------------ *)

\* C23: no SendToClient and no broadcast ever sends on a closed queue: a
\* send that races the closing of a session's queue either enqueues while
\* the session is in the table or does nothing; the process never panics
\* with a send on a closed channel.
C23_NoSendOnClosedQueue == panicked # "send on closed channel"

\* A RedisHub, no session replaced and none evicted: a SendToClient looked
\* the session up, the unregister of that session closed its queue, and
\* the select of the SendToClient then sent on the closed channel.
C23_Witness ==
    /\ hubKind = "redis"
    /\ panicked = "send on closed channel"
    /\ replaced = {}
    /\ wrongRemoved = {}
    /\ \A s \in Sessions : closeCount[s] <= 1

\* This step closes the queue of session s.
Closes(s) == closeCount'[s] > closeCount[s]

\* The event loop of h is in the locked section of the unregister branch
\* (it holds h.mu.Lock()) for session s, whose entry is in the table.
UnregisterLocked(h, s) ==
    /\ hub[h].op = "unregister"
    /\ hub[h].sess = s
    /\ [key |-> UserOf(s), sess |-> s] \in clients[h]

\* C24: no queue is closed twice: every close of a session's queue is made
\* by the event loop while it holds the exclusive lock of the table, on a
\* queue that is open, and together with the removal of that session's
\* entry.
C24_CloseOnceUnderLock ==
    [][\A s \in Sessions :
          Closes(s) =>
              /\ ~Closed(s)
              /\ \E h \in Servers :
                    /\ UnregisterLocked(h, s)
                    /\ [key |-> UserOf(s), sess |-> s] \notin clients'[h]]_vars

\* The broadcast branch evicted session a1 and closed its queue; the user
\* registered again; the unregister of a1 then found the user's new entry
\* and closed a1's queue a second time.
C24_Witness ==
    /\ closeCount["a1"] = 2
    /\ panicked = "close of closed channel"
    /\ hookCount["a1"] = 0
    /\ "a1" \notin replaced

(* ------------------------------------------------------------------ *)
(* The client table and the events of a session                        *)
(* ------------------------------------------------------------------ *)

\* The table entry of session s: under its user id.
EntryOf(s) == [key |-> UserOf(s), sess |-> s]

\* This step is the event loop of h running the locked section of the
\* register branch, or of the unregister branch, for session s.
ProcessesRegister(h, s) ==
    hub[h].op = "register" /\ hub[h].sess = s /\ hub'[h].op # "register"

ProcessesUnregister(h, s) ==
    hub[h].op = "unregister" /\ hub[h].sess = s /\ hub'[h].op # "unregister"

\* C25: a session is the table's entry for its user exactly from the
\* processing of its registration to the processing of its
\* unregistration: the one puts it in, the other takes it out, and no
\* other step (a broadcast, a send, the registration or unregistration of
\* another session of the user) puts it in or takes it out.
C25_TableIffRegistered ==
    [][\A h \in Servers, s \in Sessions :
          /\ ProcessesRegister(h, s) => EntryOf(s) \in clients'[h]
          /\ ProcessesUnregister(h, s) => EntryOf(s) \notin clients'[h]
          /\ (EntryOf(s) \notin clients[h] /\ EntryOf(s) \in clients'[h])
                => ProcessesRegister(h, s)
          /\ (EntryOf(s) \in clients[h] /\ EntryOf(s) \notin clients'[h])
                => ProcessesUnregister(h, s)]_vars

\* Session a1 is registered and its reader runs, no unregistration of any
\* session was sent, and a1 is not in the table: the broadcast branch took
\* it out.
C25_Witness ==
    /\ cliPc["a1"] = "reading"
    /\ cliSrv["a1"] = "S1"
    /\ hub["S1"] = Idle
    /\ cliPc["a2"] = "new"
    /\ EntryOf("a1") \notin clients["S1"]
    /\ \A s \in Sessions : hookCount[s] = 0

(* ------------------------------------------------------------------ *)
(* Ownership of the presence keys                                      *)
(* ------------------------------------------------------------------ *)

\* This step is instance h writing the key of user u in its register
\* branch, or deleting it in its unregister branch.
SetsPresence(h, u) ==
    /\ hub[h].op = "presence"
    /\ UserOf(hub[h].sess) = u
    /\ presence'[u] = ServerID(h)

DeletesPresence(h, u) ==
    /\ hub[h].op = "unregister"
    /\ UserOf(hub[h].sess) = u
    /\ presence'[u] = None

\* The key of u names an instance other than h, and that instance has a
\* session of u in its table.
OwnedByOther(h, u) ==
    \E g \in Servers \ {h} :
        presence[u] = ServerID(g) /\ MapHas(clients[g], u)

\* C26: the key user:{u}:server is written only by an instance that
\* processes a local register of u and deleted only by one that processes
\* a local unregister of u, and no instance overwrites or deletes a key
\* that names another instance which holds a session of u.
C26_PresenceOwnership ==
    [][\A u \in Users :
          presence'[u] # presence[u] =>
              \E h \in Servers :
                  /\ SetsPresence(h, u) \/ DeletesPresence(h, u)
                  /\ ~OwnedByOther(h, u)]_vars

\* A is in the tables of both instances, both event loops are idle, and
\* the key names S1: S1 wrote it over the entry of S2.
C26_Witness ==
    /\ \A h \in Servers : hub[h] = Idle /\ MapHas(clients[h], "A")
    /\ cliSrv["a1"] = "S2" /\ cliPc["a1"] = "reading"
    /\ cliSrv["a2"] = "S1" /\ cliPc["a2"] = "reading"
    /\ presence["A"] = ServerID("S1")

(* ------------------------------------------------------------------ *)
(* The send policy of the RedisHub                                     *)
(* ------------------------------------------------------------------ *)

\* This step is a step of the SendToClient call c.
StepOf(c) == c \in senders /\ c \notin senders'

\* What the bus holds after one envelope for user u with payload p from
\* instance h was published on messages:u.
Published(h, u, p) ==
    [g \in Servers |->
        IF Subscribed(g)
        THEN Append(inbox[g],
                    [from |-> ServerID(h), to |-> u, payload |-> p])
        ELSE inbox[g]]

\* C27: a SendToClient(u, p) of a RedisHub does one of two things.  With u
\* in the local table it goes to the non-blocking enqueue of p into the
\* queue of u's session and publishes nothing; otherwise it publishes one
\* envelope (own serverID, u, p) and touches no queue.  A publish that
\* fails is not made again and changes nothing of the hub.
C27_DistributedSendPolicy ==
    [][\A c \in senders :
          /\ (StepOf(c) /\ c.phase = "lookup") =>
                /\ UNCHANGED <<send, inbox, clients, presence, outLog>>
                /\ \E d \in senders' \ senders :
                      /\ d.phase = IF MapHas(clients[c.srv], c.target)
                                   THEN "enqueue" ELSE "publish"
                      /\ d.payload = c.payload /\ d.target = c.target
                      /\ d.phase = "enqueue" =>
                            [key |-> c.target, sess |-> d.sess]
                                \in clients[c.srv]
          /\ (StepOf(c) /\ c.phase = "enqueue") =>
                /\ UNCHANGED <<inbox, clients, presence, closeCount>>
                /\ \A s \in Sessions \ {c.sess} : send'[s] = send[s]
                /\ send'[c.sess] \in
                      {send[c.sess], Append(send[c.sess], c.payload)}
                /\ senders' = senders \ {c}
          /\ (StepOf(c) /\ c.phase = "publish") =>
                /\ UNCHANGED <<send, clients, presence, closeCount, hub,
                               panicked>>
                /\ \/ /\ inbox' = Published(c.srv, c.target, c.payload)
                      /\ outLog' = Logged(c, "published")
                   \/ /\ inbox' = inbox
                      /\ outLog' = Logged(c, "publish failed")
                /\ senders' = senders \ {c}]_vars

\* One call on S1 for B was published, and the subscriber of S2 passed
\* the payload to SendToClient on S2, which took the local path.
C27_Witness ==
    /\ \E o \in ApiOutcomes(1, "published") :
          o.srv = "S1" /\ o.owner = "api" /\ o.target = "B"
    /\ \E o \in ApiOutcomes(1, "enqueued") :
          o.srv = "S2" /\ o.owner = "sub" /\ o.sess = "b1"
    /\ send["b1"] = <<ApiPayloadOf(1)>>
    /\ \A s \in Sessions \ {"b1"} : send[s] = <<>>

(* ------------------------------------------------------------------ *)
(* The receive policy of the RedisHub                                  *)
(* ------------------------------------------------------------------ *)

\* The outcomes of the SendToClient calls the subscribers have made for
\* envelopes received from other instances.
ReceiveOutcomes == {o \in BagToSet(outLog) : o.owner = "sub"}

\* C28: the payload of an envelope that a subscriber receives from another
\* instance is put to the local queue of the target user or dropped; the
\* receiving instance never publishes it to the bus again, also when the
\* target user is unregistered at the same time.
C28_ReceiveNeverRepublishes ==
    \A o \in ReceiveOutcomes :
        /\ o.result \in {"enqueued", "full"}
        /\ o.from # ServerID(o.srv)

\* S2 received from S1 an envelope for B, found B in its table, B was
\* unregistered, and the SendToClient of the subscriber published the
\* payload again as an envelope from S2, which S1 now has in its inbox.
C28_Witness ==
    /\ \E o \in ReceiveOutcomes :
          /\ o.result = "published" /\ o.srv = "S2" /\ o.target = "B"
          /\ o.from = ServerID("S1")
    /\ \E k \in 1..Len(inbox["S1"]) :
          /\ inbox["S1"][k].from = ServerID("S2")
          /\ inbox["S1"][k].to = "B"
    /\ panicked = None

(* ------------------------------------------------------------------ *)
(* A goroutine that registers a session and then sends to its user     *)
(* ------------------------------------------------------------------ *)

\* The goroutine whose RegisterClient(s) has returned (the event loop has
\* received s from h.Register) calls SendToClient for the user of s on the
\* same hub.
SendAfterRegister(s) ==
    /\ Running
    /\ cliPc[s] = "reading"
    /\ apiCalls < MaxApiCalls
    /\ apiCalls' = apiCalls + 1
    /\ senders' = senders \cup
           {Sender(apiCalls + 1, cliSrv[s], UserOf(s),
                   ApiPayloadOf(apiCalls + 1), "local", "registrant",
                   NoFrame)}
    /\ UNCHANGED <<config, besideHub, delivVars, clients, send, closeCount,
                   hub, bcast, presence, inbox, sub, cliPc, cliSrv, isOnline,
                   panicked, hookCount, replaced, wrongRemoved, outLog>>

\* One instance; users A and B connect once each and stay.
NextOrder ==
    \/ \E s \in Connecting : HandleWebSocket(s, "S1")
    \/ \E s \in Sessions : WritePump(s)
    \/ \E s \in Sessions : HubRecvRegister("S1", s)
    \/ HubRegister("S1")
    \/ HubPresenceSet("S1")
    \/ \E s \in Sessions : SendAfterRegister(s)
    \/ \E c \in senders : SendLookup(c)
    \/ \E c \in senders : SendEnqueue(c)
    \/ \E c \in senders, ok \in BOOLEAN : SendPublish(c, ok)
    \/ SubRecv("S1")

SpecOrder == Init /\ [][NextOrder]_vars

\* C29: the operations a goroutine issues on the hub take effect in the
\* order of the calls: a SendToClient(u, p) made after the goroutine's
\* RegisterClient of u's session has returned finds u in the table, and on
\* a RedisHub goes to the local enqueue and not to the bus.
C29_SendAfterRegisterFindsUser ==
    [][\A c \in senders :
          (StepOf(c) /\ c.phase = "lookup" /\ c.owner = "registrant") =>
              /\ MapHas(clients[c.srv], c.target)
              /\ \E d \in senders' \ senders :
                    d.payload = c.payload /\ d.phase = "enqueue"]_vars

\* On a RedisHub the call made after RegisterClient(a1) returned did not
\* find A, whose insertion the event loop had not made yet, and published
\* the payload; A is in the table now and no session has ended.
C29_Witness ==
    /\ hubKind = "redis"
    /\ \E o \in BagToSet(outLog) :
          /\ o.owner = "registrant" /\ o.target = "A"
          /\ o.result = "published"
    /\ EntryOf("a1") \in clients["S1"]
    /\ \A s \in Sessions : cliPc[s] \in {"new", "reading"}

(* ------------------------------------------------------------------ *)
(* What runs under the exclusive lock                                  *)
(* ------------------------------------------------------------------ *)

\* This step is the event loop of h running a section between h.mu.Lock()
\* and h.mu.Unlock(): that of the register branch or of the unregister
\* branch.
LockedSection(h) ==
    /\ hub[h].op \in {"register", "unregister"}
    /\ hub'[h] # hub[h]

\* C30: between taking and releasing the exclusive lock of the client
\* table the event loop makes no call to the bus (presence set or delete,
\* publish), no repository call and no hook invocation, and no channel
\* send or receive.
C30_NoSuspensionUnderLock ==
    [][\A h \in Servers :
          LockedSection(h) =>
              UNCHANGED <<presence, inbox, isOnline, hookCount, send, bcast,
                          store, chats>>]_vars

\* The event loop of a RedisHub has left the locked section of the
\* unregister branch: the session is out of the table, its queue closed,
\* the presence key deleted, and the hook is still to be called.
C30_Witness ==
    \E h \in Servers :
        /\ hubKind = "redis"
        /\ hub[h].op = "hook"
        /\ hub[h].sess = "a1"
        /\ Closed("a1")
        /\ ~MapHas(clients[h], "A")
        /\ presence["A"] = None
        /\ hookCount["a1"] = 0
        /\ cliPc["a2"] = "new"

(* ------------------------------------------------------------------ *)
(* Frames that are dropped                                             *)
(* ------------------------------------------------------------------ *)

\* The returns of handleMessage before SaveMessage: the frame is no JSON,
\* the chat is not found, the sender is not found.
DroppedPaths == {"unknown", "no chat", "no sender"}

\* C31: a frame that does not decode, or whose chat or sender is not
\* found, is dropped: no message is persisted (none at all for a chat that
\* is not stored or for bytes that are no JSON), no chat is deleted, no
\* SendToClient call is made, and every session stays in the table with
\* its queue open as it was.
C31_DroppedFrameChangesNothing ==
    [][frameCount' # frameCount =>
          /\ \A m \in created' \ created : m.chatId \in chats
          /\ \A s \in Sessions :
                cur'[s] # cur[s] =>
                    /\ ParsesAsMessage(cur'[s].frame)
                    /\ cur'[s].frame.chatId \in chats
          /\ (\E r \in handled' \ handled : r.path \in DroppedPaths) =>
                UNCHANGED <<store, created, chats, participants, senders,
                            outLog, inbox, clients, send, closeCount,
                            cliPc, cur, isOnline, panicked>>]_vars

\* With both users registered and reading, a frame for a chat that is not
\* stored was dropped, and so was a frame that is no JSON or one whose
\* sender was not found; nothing is stored.
C31_Witness ==
    /\ \E r \in handled : r.path = "no chat" /\ r.frame.chatId = "c0"
    /\ \E r \in handled : r.path \in {"unknown", "no sender"}
    /\ created = {}
    /\ chats = {"c1"}
    /\ \A s \in Connecting :
          /\ cliPc[s] = "reading"
          /\ EntryOf(s) \in clients["S1"]
          /\ ~Closed(s)

\* ---------------------------------------------------------------------
\* A Hub and a RedisHub side by side.  Both are given the same calls, one
\* after the other, each call running to its end at both hubs before the
\* next is made; every user is local and nothing arrives from the bus.

MaxPolicyCalls == 4

\* The register branch of Run, run to its end for client s.
AfterRegister(st, s) ==
    IF st.panicked THEN st
    ELSE [st EXCEPT !.table = RegisterInsert(@, s)]

\* The unregister branch of Run, run to its end for client s: the entry of
\* s's user is deleted and s's queue closed when the user has an entry;
\* closing a closed channel panics, after the delete.
AfterUnregister(st, s) ==
    IF st.panicked \/ ~UnregisterFinds(st.table, s) THEN st
    ELSE [st EXCEPT !.table = MapDelete(@, UserOf(s)),
                    !.closed = @ \cup {s},
                    !.panicked = s \in st.closed]

\* SendToClient(u, p) run to its end: select { case client.send <- p: ;
\* default: log }.  A send on a closed channel panics.
AfterSendToClient(st, u, p) ==
    IF st.panicked \/ ~MapHas(st.table, u) THEN st
    ELSE LET s == MapSess(st.table, u)
         IN IF s \in st.closed THEN [st EXCEPT !.panicked = TRUE]
            ELSE IF HasRoom(st.send[s])
                 THEN [st EXCEPT !.send[s] = Append(@, p)]
                 ELSE st

\* The broadcast branch of Run (Hub) and broadcastLocal (RedisHub), run
\* over the whole table: each entry with room is given p; an entry
\* without room is closed and deleted by Hub.Run and only logged by
\* broadcastLocal.
AfterBroadcast(kind, st, p) ==
    IF st.panicked THEN st
    ELSE LET live == {e \in st.table : e.sess \notin st.closed}
             fits == {e \in live : HasRoom(st.send[e.sess])}
             full == live \ fits
             out  == IF BroadcastEvicts(kind) THEN full ELSE {}
         IN [table |-> st.table \ out,
             send |-> [s \in Sessions |->
                          IF \E e \in fits : e.sess = s
                          THEN Append(st.send[s], p) ELSE st.send[s]],
             closed |-> st.closed \cup {e.sess : e \in out},
             panicked |-> live # st.table]

PolicyRegister(s) ==
    /\ polOps < MaxPolicyCalls
    /\ s \notin polSeen
    /\ polHub' = [k \in HubKinds |-> AfterRegister(polHub[k], s)]
    /\ polSeen' = polSeen \cup {s}
    /\ polOps' = polOps + 1
    /\ UNCHANGED <<besidePolicy, polGone>>

PolicyUnregister(s) ==
    /\ polOps < MaxPolicyCalls
    /\ s \in polSeen \ polGone
    /\ polHub' = [k \in HubKinds |-> AfterUnregister(polHub[k], s)]
    /\ polGone' = polGone \cup {s}
    /\ polOps' = polOps + 1
    /\ UNCHANGED <<besidePolicy, polSeen>>

PolicySendToClient(u) ==
    /\ polOps < MaxPolicyCalls
    /\ polHub' = [k \in HubKinds |->
                     AfterSendToClient(polHub[k], u, ApiPayloadOf(polOps))]
    /\ polOps' = polOps + 1
    /\ UNCHANGED <<besidePolicy, polSeen, polGone>>

PolicyBroadcast ==
    /\ polOps < MaxPolicyCalls
    /\ polHub' = [k \in HubKinds |->
                     AfterBroadcast(k, polHub[k], ApiPayloadOf(polOps))]
    /\ polOps' = polOps + 1
    /\ UNCHANGED <<besidePolicy, polSeen, polGone>>

NextPolicy ==
    \/ \E s \in Sessions : PolicyRegister(s)
    \/ \E s \in Sessions : PolicyUnregister(s)
    \/ \E u \in Users : PolicySendToClient(u)
    \/ PolicyBroadcast

SpecPolicy == Init /\ [][NextPolicy]_vars

\* C32: with every user local and no bus traffic, a Hub and a RedisHub
\* that are given the same sequence of Register, Unregister, SendToClient
\* and Broadcast calls have the same client table and the same queue
\* contents (which needs the full-queue treatment of the broadcast path
\* to be that of the send-to-one path, in both hubs).
C32_OneFullQueuePolicy ==
    /\ polHub["mem"].table = polHub["redis"].table
    /\ polHub["mem"].send = polHub["redis"].send

\* The two hubs after a broadcast reached a session whose queue was full:
\* the Hub has closed the queue and deleted the entry, the RedisHub still
\* has the session registered with its queue open, and neither panicked.
C32_Witness ==
    /\ \E s \in polSeen \ polGone :
          /\ s \in polHub["mem"].closed
          /\ EntryOf(s) \notin polHub["mem"].table
          /\ EntryOf(s) \in polHub["redis"].table
          /\ s \notin polHub["redis"].closed
          /\ ~HasRoom(polHub["redis"].send[s])
    /\ \A k \in HubKinds : ~polHub[k].panicked

\* ---------------------------------------------------------------------
\* The online flag of the user store.

\* Session s is registered and its unregistration has not been processed:
\* the event loop of s's instance has run the register branch for s, and
\* s's ReadPump has not ended.
LiveSession(s) ==
    /\ cliPc[s] = "reading"
    /\ ~(hub[cliSrv[s]].op = "register" /\ hub[cliSrv[s]].sess = s)

\* C33: a user with a registered session whose unregistration has not
\* been processed is stored as online.
C33_OnlineTracksLiveSessions ==
    \A s \in Sessions : LiveSession(s) => isOnline[UserOf(s)]

\* The newer session a2 of user A is in the client table with its queue
\* open and its reader running, the event loop is idle, the unregister
\* hook of the older session a1 has run once, nothing has panicked, and
\* the user store has A offline.
C33_Witness ==
    /\ LiveSession("a2")
    /\ EntryOf("a2") \in clients[cliSrv["a2"]]
    /\ ~Closed("a2")
    /\ hub[cliSrv["a2"]] = Idle
    /\ hookCount["a1"] = 1 /\ hookCount["a2"] = 0
    /\ Running
    /\ ~isOnline["A"]

\* ---------------------------------------------------------------------
\* Progress of the event loop.

\* A call is waiting on the event loop of h: a RegisterClient or an
\* UnregisterClient that the loop has not received, a broadcast message
\* still in h.broadcast, or a branch of Run that has not finished.
WaitsOnLoop(h) ==
    \/ \E s \in Sessions :
          cliSrv[s] = h /\ cliPc[s] \in {"registering", "unregistering"}
    \/ bcast[h] # <<>>
    \/ hub[h] # Idle

\* The event loop of h can take a step, or a SendToClient that holds the
\* read lock it is waiting for can.
LoopCanStep(h) ==
    ENABLED (\/ \E s \in Sessions : HubRecvRegister(h, s)
             \/ HubRegister(h)
             \/ HubPresenceSet(h)
             \/ \E s \in Sessions : HubRecvUnregister(h, s)
             \/ HubUnregister(h)
             \/ HubUnregisterHook(h)
             \/ HubRecvBroadcast(h)
             \/ \E e \in hub[h].todo : HubBroadcastStep(h, e)
             \/ \E c \in ReadersOf(h) : SendLookup(c) \/ SendEnqueue(c))

\* C34: no call waits on the event loop for ever: whenever a
\* RegisterClient, UnregisterClient or Broadcast is waiting on the loop,
\* the loop (or a reader it waits for) can take its next step, and no
\* SendToClient waits for anything but the lock.
C34_LoopNeverStuck ==
    \A h \in instances :
        /\ WaitsOnLoop(h) => LoopCanStep(h)
        /\ \A c \in senders : c.srv = h =>
              ENABLED (SendLookup(c) \/ SendEnqueue(c)
                         \/ \E ok \in BOOLEAN : SendPublish(c, ok))

\* The in-memory Hub after its broadcast branch closed the full queue of
\* a1 and its unregister branch closed it again: the process has
\* panicked while the UnregisterClient of a2 was waiting to be received.
C34_Witness ==
    /\ hubKind = "mem"
    /\ panicked = "close of closed channel"
    /\ closeCount["a1"] = 2
    /\ cliPc["a2"] = "unregistering"

\* ---------------------------------------------------------------------
\* Who may post to a chat.

\* Chat c1 with both connecting users as participants, or without user A.
PostingLists == {{"A", "B"}, {"B", "C"}}

InitPosting ==
    /\ \E kind \in HubKinds : InitHub(kind, {"S1"}, PostingLists)
    /\ CacheUnused
    /\ PolicyStart
    /\ AuthStart
    /\ ChatStart

SpecPosting == InitPosting /\ [][NextDelivery]_vars

\* C35: every message handleMessage has persisted for a chat, and every
\* outbound frame it has put on a participant's queue, comes from a
\* session whose user is a participant of that chat.
C35_OnlyParticipantsPost ==
    /\ \A m \in created : m.senderId \in participants[m.chatId]
    /\ \A e \in Enqueues :
          e.from = "local" /\ e.owner \in Sessions =>
              UserOf(e.owner) \in participants[e.frame.chatId]

\* User A is not a participant of c1; a frame of A's session for c1 was
\* handled to the end: its message is stored and its outbound frame is on
\* the queue of participant B.
C35_Witness ==
    /\ "A" \notin participants["c1"]
    /\ \E m \in store : m.senderId = "A" /\ m.chatId = "c1"
    /\ \E r \in handled : r.sess = "a1" /\ r.path = "sent"
    /\ \E i \in 1..Len(send["b1"]) :
          send["b1"][i].userId = "A" /\ send["b1"][i].message = "hi"

\* ---------------------------------------------------------------------
\* Refresh tokens: authUsecase.RefreshToken, Logout, LogoutAllDevices over
\* the collection refresh_tokens.

MaxAuthCalls == 3

\* The token string GenerateRefreshToken returns: one that no document
\* has.
FreshToken == CHOOSE t \in TokenIds : tokens[t] = NoDoc /\
                                       \A x \in 1..(t - 1) : tokens[x] # NoDoc

\* refreshTokenRepo.Revoke: UpdateOne sets isRevoked on the document with
\* this token; a filter that matches nothing is no error.
Revoke(docs, t) ==
    IF docs[t] = NoDoc THEN docs ELSE [docs EXCEPT ![t].isRevoked = TRUE]

\* refreshTokenRepo.RevokeAllByUserId: UpdateMany on the user's documents
\* that are not revoked.
RevokeAllByUserId(docs, u) ==
    [t \in TokenIds |->
        IF docs[t].userId = u /\ ~docs[t].isRevoked
        THEN [docs[t] EXCEPT !.isRevoked = TRUE] ELSE docs[t]]

\* What a RefreshToken call returned: the error, or "ok" with the new
\* refresh token it stored.
Returned(p, t, result, new) ==
    [proc |-> p, token |-> t, result |-> result, new |-> new,
     afterLogout |-> t \in loggedOut]

\* RefreshToken up to the token generation: GetByToken, the revoked and
\* expired checks, userRepo.Get (userOk).  Every failure returns.
RefreshGet(p, t, userOk) ==
    /\ refresh[p].pc = "idle"
    /\ authOps < MaxAuthCalls
    /\ authOps' = authOps + 1
    /\ LET doc == tokens[t]
           err == IF doc = NoDoc THEN "ErrInvalidRefreshToken"
                  ELSE IF doc.isRevoked THEN "ErrRevokedRefreshToken"
                  ELSE IF doc.expired THEN "ErrExpiredRefreshToken"
                  ELSE IF ~userOk THEN "error"
                  ELSE "none"
       IN IF err = "none"
          THEN /\ refresh' = [refresh EXCEPT ![p] =
                      [pc |-> "revoke", token |-> t, userId |-> doc.userId]]
               /\ UNCHANGED authLog
          ELSE /\ authLog' = authLog \cup {Returned(p, t, err, 0)}
               /\ UNCHANGED refresh
    /\ UNCHANGED <<besideAuth, tokens, loggedOut>>

\* err = u.refreshTokenRepo.Revoke(ctx, refreshTokenString)
RefreshRevoke(p, ok) ==
    /\ refresh[p].pc = "revoke"
    /\ IF ok
       THEN /\ tokens' = Revoke(tokens, refresh[p].token)
            /\ refresh' = [refresh EXCEPT ![p].pc = "create"]
            /\ UNCHANGED authLog
       ELSE /\ authLog' = authLog \cup
                   {Returned(p, refresh[p].token, "error", 0)}
            /\ refresh' = [refresh EXCEPT ![p] = NoRefresh]
            /\ UNCHANGED tokens
    /\ UNCHANGED <<besideAuth, loggedOut, authOps>>

\* err = u.refreshTokenRepo.Create(ctx, newRefreshToken), and the return
\* of the AuthResponse with the new access and refresh tokens.
RefreshCreate(p, ok) ==
    /\ refresh[p].pc = "create"
    /\ \E t \in TokenIds : tokens[t] = NoDoc
    /\ IF ok
       THEN /\ tokens' = [tokens EXCEPT ![FreshToken] =
                             [NoDoc EXCEPT !.userId = refresh[p].userId]]
            /\ authLog' = authLog \cup
                   {Returned(p, refresh[p].token, "ok", FreshToken)}
       ELSE /\ authLog' = authLog \cup
                   {Returned(p, refresh[p].token, "error", 0)}
            /\ UNCHANGED tokens
    /\ refresh' = [refresh EXCEPT ![p] = NoRefresh]
    /\ UNCHANGED <<besideAuth, loggedOut, authOps>>

\* authUsecase.Logout(t), with the Revoke succeeding.
Logout(t) ==
    /\ authOps < MaxAuthCalls
    /\ authOps' = authOps + 1
    /\ tokens' = Revoke(tokens, t)
    /\ loggedOut' = IF tokens[t] = NoDoc THEN loggedOut ELSE loggedOut \cup {t}
    /\ UNCHANGED <<besideAuth, refresh, authLog>>

\* authUsecase.LogoutAllDevices(u), with the update succeeding.
LogoutAllDevices(u) ==
    /\ authOps < MaxAuthCalls
    /\ authOps' = authOps + 1
    /\ tokens' = RevokeAllByUserId(tokens, u)
    /\ loggedOut' = loggedOut \cup
           {t \in TokenIds : tokens[t].userId = u /\ ~tokens[t].isRevoked}
    /\ UNCHANGED <<besideAuth, refresh, authLog>>

\* time.Now() passes the ExpiresAt of token t.
TokenExpires(t) ==
    /\ tokens[t] # NoDoc
    /\ ~tokens[t].expired
    /\ tokens' = [tokens EXCEPT ![t].expired = TRUE]
    /\ UNCHANGED <<besideAuth, refresh, authLog, loggedOut, authOps>>

NextAuth ==
    \/ \E p \in RefProcs, t \in TokenIds, userOk \in BOOLEAN :
          RefreshGet(p, t, userOk)
    \/ \E p \in RefProcs, ok \in BOOLEAN : RefreshRevoke(p, ok)
    \/ \E p \in RefProcs, ok \in BOOLEAN : RefreshCreate(p, ok)
    \/ \E t \in TokenIds : Logout(t)
    \/ \E u \in {"A", "B"} : LogoutAllDevices(u)
    \/ \E t \in TokenIds : TokenExpires(t)

SpecAuth == Init /\ [][NextAuth]_vars

\* The RefreshToken calls with token t that succeeded.
Succeeded(t) == {r \in authLog : r.token = t /\ r.result = "ok"}

\* C36: for any refresh token t at most one RefreshToken(t) call succeeds,
\* also when two calls with t run at the same time; once one has
\* succeeded t is revoked, and a RefreshToken(t) that returns later
\* fails with ErrRevokedRefreshToken and stores no new token.
C36_RefreshTokenSingleUse ==
    /\ [](\A t \in TokenIds : Cardinality(Succeeded(t)) <= 1)
    /\ [](\A t \in TokenIds : Succeeded(t) # {} => tokens[t].isRevoked)
    /\ [][\A t \in TokenIds : Succeeded(t) # {} =>
             \A r \in authLog' \ authLog :
                 r.token = t => r.result = "ErrRevokedRefreshToken" /\
                                 tokens' = tokens]_vars

\* Two RefreshToken calls with token 1 both succeeded: each stored a new
\* refresh token of user A, and both new tokens are usable.
C36_Witness ==
    \E r1, r2 \in Succeeded(1) :
        /\ r1.proc # r2.proc /\ r1.new # r2.new
        /\ \A r \in {r1, r2} :
              /\ tokens[r.new].userId = "A"
              /\ ~tokens[r.new].isRevoked /\ ~tokens[r.new].expired
        /\ tokens[1].isRevoked

\* C37: revocation is permanent.  A token that Logout or LogoutAllDevices
\* has revoked stays revoked whatever is called later, and from then on
\* no RefreshToken with it returns anything but an error or stores a
\* token.
C37_RevocationPermanent ==
    /\ [](\A t \in loggedOut : tokens[t].isRevoked)
    /\ [][\A r \in authLog' \ authLog :
             r.token \in loggedOut => r.result # "ok" /\ tokens' = tokens]_vars

\* Logout has revoked token 1 of user A, and a RefreshToken with token 1
\* has returned a new refresh token after that: the new token is stored
\* for A, not revoked and not expired.
C37_Witness ==
    \E r \in authLog :
        /\ r.token = 1 /\ r.result = "ok" /\ r.afterLogout
        /\ 1 \in loggedOut /\ tokens[1].isRevoked
        /\ tokens[r.new].userId = "A"
        /\ ~tokens[r.new].isRevoked /\ ~tokens[r.new].expired

\* ---------------------------------------------------------------------
\* The chat usecase over the collections chats, chat_participants and
\* chat_invitations: RespondToInvitation, LeaveGroup, InviteUsersToGroup,
\* CreatePersonalChat.

MaxChatCalls == 4

\* chatRepo.IsParticipant: CountDocuments({userId, chatId, isActive}) > 0
IsParticipant(docs, u, c) ==
    \E i \in DOMAIN docs :
        docs[i].userId = u /\ docs[i].chatId = c /\ docs[i].isActive

\* chatRepo.IsAdmin: the same count with role "admin".
IsAdmin(docs, u, c) ==
    \E i \in DOMAIN docs :
        /\ docs[i].userId = u /\ docs[i].chatId = c /\ docs[i].isActive
        /\ docs[i].role = "admin"

\* chatRepo.AddParticipants: InsertMany of one new document for each
\* entry of the list.
AddParticipants(docs, list) == docs \o list

\* chatRepo.UpdateInvitationStatus: UpdateOne by _id, whatever the status
\* of the document is.
UpdateInvitationStatus(docs, id, status) ==
    [docs EXCEPT ![id].status = status]

\* What a call of the chat usecase returned.
ChatReturn(p, err, id) ==
    [proc |-> p, op |-> chatCall[p].op, user |-> chatCall[p].user,
     other |-> chatCall[p].other, arg |-> chatCall[p].id,
     call |-> chatCall[p].call, err |-> err, id |-> id]

\* RespondToInvitation(invitationId, userId, accept) up to the status
\* update: GetInvitation, the invitee check and the pending check.
RespondToInvitationGet(p, id, u, accept) ==
    /\ chatCall[p].pc = "idle"
    /\ chatOps < MaxChatCalls
    /\ chatOps' = chatOps + 1
    /\ LET c == [NoChatCall EXCEPT !.op = "RespondToInvitation", !.user = u,
                                   !.id = id, !.accept = accept,
                                   !.call = chatOps + 1]
           err == IF id \notin DOMAIN invDocs THEN "ErrInvitationNotFound"
                  ELSE IF invDocs[id].inviteeId # u THEN "ErrInvalidInvitation"
                  ELSE IF invDocs[id].status # "pending"
                       THEN "already responded"
                  ELSE "nil"
       IN IF err = "nil"
          THEN /\ chatCall' = [chatCall EXCEPT ![p] = [c EXCEPT !.pc = "update"]]
               /\ UNCHANGED chatLog
          ELSE /\ chatLog' = chatLog \cup
                      {[proc |-> p, op |-> c.op, user |-> u, other |-> None,
                        arg |-> id, call |-> c.call, err |-> err, id |-> 0]}
               /\ UNCHANGED chatCall
    /\ UNCHANGED <<besideChat, chatDocs, partDocs, invDocs>>

\* err = c.chatRepo.UpdateInvitationStatus(ctx, invitationId, status);
\* a rejection returns nil after it.
RespondToInvitationUpdate(p, ok) ==
    /\ chatCall[p].pc = "update"
    /\ chatCall[p].op = "RespondToInvitation"
    /\ IF ~ok
       THEN /\ chatLog' = chatLog \cup {ChatReturn(p, "error", 0)}
            /\ chatCall' = [chatCall EXCEPT ![p] = NoChatCall]
            /\ UNCHANGED invDocs
       ELSE /\ invDocs' = UpdateInvitationStatus(invDocs, chatCall[p].id,
                              IF chatCall[p].accept THEN "accepted"
                                                    ELSE "rejected")
            /\ IF chatCall[p].accept
               THEN /\ chatCall' = [chatCall EXCEPT ![p].pc = "add"]
                    /\ UNCHANGED chatLog
               ELSE /\ chatLog' = chatLog \cup {ChatReturn(p, "nil", 0)}
                    /\ chatCall' = [chatCall EXCEPT ![p] = NoChatCall]
    /\ UNCHANGED <<besideChat, chatDocs, partDocs, chatOps>>

\* if accept { err = c.chatRepo.AddParticipants(ctx, participants) }
RespondToInvitationAdd(p, ok) ==
    /\ chatCall[p].pc = "add"
    /\ chatCall[p].op = "RespondToInvitation"
    /\ partDocs' = IF ok
                   THEN AddParticipants(partDocs,
                            <<Participant(invDocs[chatCall[p].id].chatId,
                                          chatCall[p].user, "member")>>)
                   ELSE partDocs
    /\ chatLog' = chatLog \cup {ChatReturn(p, IF ok THEN "nil" ELSE "error", 0)}
    /\ chatCall' = [chatCall EXCEPT ![p] = NoChatCall]
    /\ UNCHANGED <<besideChat, chatDocs, invDocs, chatOps>>

\* The users that answer invitations, and the invitation ids they give.
Responders == {"B", "C"}

NextInvite ==
    \/ \E p \in ChatProcs, id \in 1..2, u \in Responders, accept \in BOOLEAN :
          RespondToInvitationGet(p, id, u, accept)
    \/ \E p \in ChatProcs, ok \in BOOLEAN : RespondToInvitationUpdate(p, ok)
    \/ \E p \in ChatProcs, ok \in BOOLEAN : RespondToInvitationAdd(p, ok)

SpecInvite == Init /\ [][NextInvite]_vars

\* The participant documents of user u in chat c.
RecordsOf(u, c) ==
    {i \in DOMAIN partDocs : partDocs[i].userId = u /\ partDocs[i].chatId = c}

\* C38: an invitation is answered at most once and only by its invitee.
\* A RespondToInvitation that returns ErrInvalidInvitation or "already
\* responded" changes neither the invitation nor the participants; the
\* status of an invitation changes only from pending, to accepted or
\* rejected; and at most one participant document exists for the invitee
\* in the chat, whatever two calls on the invitation do.
C38_AnsweredAtMostOnce ==
    /\ [][\A r \in chatLog' \ chatLog :
             r.err \in {"ErrInvalidInvitation", "already responded"} =>
                 invDocs' = invDocs /\ partDocs' = partDocs]_vars
    /\ [][\A i \in DOMAIN invDocs :
             invDocs'[i].status # invDocs[i].status =>
                 /\ invDocs[i].status = "pending"
                 /\ invDocs'[i].status \in {"accepted", "rejected"}]_vars
    /\ [](\A i \in DOMAIN invDocs :
             Cardinality(RecordsOf(invDocs[i].inviteeId, invDocs[i].chatId)) <= 1)

\* Two RespondToInvitation calls of invitee B on invitation 1, one
\* accepting and one rejecting, have both returned nil: the invitation is
\* stored as rejected and B is a participant of the chat.
C38_Witness ==
    /\ \E r1, r2 \in chatLog :
          /\ r1.proc # r2.proc
          /\ \A r \in {r1, r2} :
                r.op = "RespondToInvitation" /\ r.arg = 1 /\ r.user = "B" /\
                r.err = "nil"
    /\ invDocs[1].status = "rejected"
    /\ IsParticipant(partDocs, "B", 1)
    /\ \A p \in ChatProcs : chatCall[p] = NoChatCall

\* ---------------------------------------------------------------------
\* Leaving a group and coming back.

\* The store after B accepted invitation 1: A and B are participants of
\* group chat 1.
InitLeave ==
    /\ \E kind \in HubKinds : InitHub(kind, {"S1"}, {{"A", "B"}})
    /\ CacheUnused
    /\ PolicyStart
    /\ AuthStart
    /\ chatDocs = <<[type |-> "group", createdBy |-> "A"]>>
    /\ partDocs = <<Participant(1, "A", "admin"), Participant(1, "B", "member")>>
    /\ invDocs = <<[chatId |-> 1, inviterId |-> "A", inviteeId |-> "B",
                    status |-> "accepted"]>>
    /\ chatCall = [p \in ChatProcs |-> NoChatCall]
    /\ chatLog = {}
    /\ chatOps = 0

\* chatRepo.GetParticipants: the documents of the chat with isActive.
GetParticipants(docs, c) ==
    {docs[i].userId : i \in {j \in DOMAIN docs :
                                docs[j].chatId = c /\ docs[j].isActive}}

\* chatRepo.RemoveParticipant: UpdateOne({userId, chatId}, isActive =
\* false) when it is document i that the update picks.
RemoveParticipant(docs, i) == [docs EXCEPT ![i].isActive = FALSE]

\* chatRepo.GetInvitationByUserAndChat finds a pending invitation.
HasPendingInvitation(docs, u, c) ==
    \E i \in DOMAIN docs :
        docs[i].inviteeId = u /\ docs[i].chatId = c /\ docs[i].status = "pending"

\* LeaveGroup(chatId, userId) up to RemoveParticipant: chatRepo.Get, the
\* type check, IsParticipant.
LeaveGroupCheck(p, c, u) ==
    /\ chatCall[p].pc = "idle"
    /\ chatOps < MaxChatCalls
    /\ chatOps' = chatOps + 1
    /\ LET call == [NoChatCall EXCEPT !.op = "LeaveGroup", !.user = u,
                                      !.id = c, !.call = chatOps + 1]
           err == IF c \notin DOMAIN chatDocs THEN "ErrChatNotFound"
                  ELSE IF chatDocs[c].type # "group"
                       THEN "cannot leave personal chat"
                  ELSE IF ~IsParticipant(partDocs, u, c) THEN "ErrNotParticipant"
                  ELSE "nil"
       IN IF err = "nil"
          THEN /\ chatCall' = [chatCall EXCEPT ![p] = [call EXCEPT !.pc = "remove"]]
               /\ UNCHANGED chatLog
          ELSE /\ chatLog' = chatLog \cup
                      {[proc |-> p, op |-> call.op, user |-> u, other |-> None,
                        arg |-> c, call |-> call.call, err |-> err, id |-> 0]}
               /\ UNCHANGED chatCall
    /\ UNCHANGED <<besideChat, chatDocs, partDocs, invDocs>>

\* return c.chatRepo.RemoveParticipant(ctx, userId, chatId): the filter
\* has no isActive, and UpdateOne changes one of the documents it matches.
LeaveGroupRemove(p, ok) ==
    /\ chatCall[p].pc = "remove"
    /\ LET u == chatCall[p].user
           c == chatCall[p].id
       IN IF ok /\ RecordsOf(u, c) # {}
          THEN \E i \in RecordsOf(u, c) : partDocs' = RemoveParticipant(partDocs, i)
          ELSE UNCHANGED partDocs
    /\ chatLog' = chatLog \cup {ChatReturn(p, IF ok THEN "nil" ELSE "error", 0)}
    /\ chatCall' = [chatCall EXCEPT ![p] = NoChatCall]
    /\ UNCHANGED <<besideChat, chatDocs, invDocs, chatOps>>

\* InviteUsersToGroup(chatId, inviterId, [u]) with every repository call
\* succeeding: the chat is a group, the inviter is a participant and an
\* admin, and u is invited unless u is a participant or has a pending
\* invitation.
InviteUsersToGroup(p, c, inviter, u) ==
    /\ chatCall[p].pc = "idle"
    /\ chatOps < MaxChatCalls
    /\ chatOps' = chatOps + 1
    /\ LET err == IF c \notin DOMAIN chatDocs THEN "ErrChatNotFound"
                  ELSE IF chatDocs[c].type # "group"
                       THEN "ErrCannotInviteToPersonal"
                  ELSE IF ~IsParticipant(partDocs, inviter, c)
                       THEN "ErrNotParticipant"
                  ELSE IF ~IsAdmin(partDocs, inviter, c) THEN "ErrNotAdmin"
                  ELSE "nil"
           skip == IsParticipant(partDocs, u, c)
                       \/ HasPendingInvitation(invDocs, u, c)
       IN /\ invDocs' = IF err = "nil" /\ ~skip
                        THEN Append(invDocs,
                                 [chatId |-> c, inviterId |-> inviter,
                                  inviteeId |-> u, status |-> "pending"])
                        ELSE invDocs
          /\ chatLog' = chatLog \cup
                 {[proc |-> p, op |-> "InviteUsersToGroup", user |-> inviter,
                   other |-> u, arg |-> c, call |-> chatOps + 1, err |-> err,
                   id |-> 0]}
    /\ UNCHANGED <<besideChat, chatDocs, partDocs, chatCall>>

\* One call after the other, made by one goroutine.
NextLeave ==
    \/ \E c \in 1..2, u \in Responders : LeaveGroupCheck("q1", c, u)
    \/ \E ok \in BOOLEAN : LeaveGroupRemove("q1", ok)
    \/ \E inviter \in {"A", "B"}, u \in Responders :
          InviteUsersToGroup("q1", 1, inviter, u)
    \/ \E id \in 1..2, u \in Responders, accept \in BOOLEAN :
          RespondToInvitationGet("q1", id, u, accept)
    \/ \E ok \in BOOLEAN : RespondToInvitationUpdate("q1", ok)
    \/ \E ok \in BOOLEAN : RespondToInvitationAdd("q1", ok)

SpecLeave == InitLeave /\ [][NextLeave]_vars

\* C39: when LeaveGroup(chat, u) returns without error, u is not a
\* participant of the chat: IsParticipant is false and GetParticipants
\* omits u, whatever u's history of joining and leaving the chat is.
C39_LeftMeansNotParticipant ==
    [][\A r \in chatLog' \ chatLog :
          r.op = "LeaveGroup" /\ r.err = "nil" =>
              /\ ~IsParticipant(partDocs', r.user, r.arg)
              /\ r.user \notin GetParticipants(partDocs', r.arg)]_vars

\* B left chat 1, was invited again, accepted and left a second time,
\* each call returning nil and none overlapping another: B has two
\* participant documents in chat 1 and is still a participant.
C39_Witness ==
    /\ \E r1, r2 \in chatLog :
          /\ r1.call < r2.call
          /\ \A r \in {r1, r2} :
                r.op = "LeaveGroup" /\ r.user = "B" /\ r.arg = 1 /\ r.err = "nil"
          /\ \E a \in chatLog :
                /\ a.op = "RespondToInvitation" /\ a.user = "B" /\ a.err = "nil"
                /\ r1.call < a.call /\ a.call < r2.call
    /\ Cardinality(RecordsOf("B", 1)) = 2
    /\ IsParticipant(partDocs, "B", 1)
    /\ "B" \in GetParticipants(partDocs, 1)
    /\ chatCall["q1"] = NoChatCall

\* ---------------------------------------------------------------------
\* Personal chats.

\* The users whose documents userRepo.Get finds.
PersonalUsers == {"A", "B"}

\* The chats GetPersonalChatBetweenUsers matches: personal chats that
\* have a participant document of each of the two users.
PersonalChatsBetween(chs, docs, a, b) ==
    {c \in DOMAIN chs :
        /\ chs[c].type = "personal"
        /\ \A u \in {a, b} :
              \E i \in DOMAIN docs : docs[i].chatId = c /\ docs[i].userId = u}

\* chats[0] of the aggregation: the first of them in collection order.
GetPersonalChatBetweenUsers(chs, docs, a, b) ==
    CHOOSE c \in PersonalChatsBetween(chs, docs, a, b) :
        \A d \in PersonalChatsBetween(chs, docs, a, b) : c <= d

\* CreatePersonalChat(userId, participantId) up to chatRepo.Create:
\* userRepo.Get of the participant, and the lookup of an existing chat,
\* whose id is returned when there is one.
CreatePersonalChatGet(p, a, b) ==
    /\ chatCall[p].pc = "idle"
    /\ chatOps < MaxChatCalls
    /\ chatOps' = chatOps + 1
    /\ LET call == [NoChatCall EXCEPT !.op = "CreatePersonalChat", !.user = a,
                                      !.other = b, !.call = chatOps + 1]
           found == PersonalChatsBetween(chatDocs, partDocs, a, b) # {}
       IN IF b \notin PersonalUsers \/ found
          THEN /\ chatLog' = chatLog \cup
                      {[proc |-> p, op |-> call.op, user |-> a, other |-> b,
                        arg |-> 0, call |-> call.call,
                        err |-> IF found /\ b \in PersonalUsers THEN "nil"
                                ELSE "participant not found",
                        id |-> IF found /\ b \in PersonalUsers
                               THEN GetPersonalChatBetweenUsers(
                                        chatDocs, partDocs, a, b)
                               ELSE 0]}
               /\ UNCHANGED chatCall
          ELSE /\ chatCall' = [chatCall EXCEPT ![p] = [call EXCEPT !.pc = "create"]]
               /\ UNCHANGED chatLog
    /\ UNCHANGED <<besideChat, chatDocs, partDocs, invDocs>>

\* chatId, err := c.chatRepo.Create(ctx, chat)
CreatePersonalChatCreate(p, ok) ==
    /\ chatCall[p].pc = "create"
    /\ IF ok
       THEN /\ chatDocs' = Append(chatDocs,
                               [type |-> "personal",
                                createdBy |-> chatCall[p].user])
            /\ chatCall' = [chatCall EXCEPT ![p].pc = "members",
                                            ![p].id = Len(chatDocs) + 1]
            /\ UNCHANGED chatLog
       ELSE /\ chatLog' = chatLog \cup {ChatReturn(p, "error", 0)}
            /\ chatCall' = [chatCall EXCEPT ![p] = NoChatCall]
            /\ UNCHANGED chatDocs
    /\ UNCHANGED <<besideChat, partDocs, invDocs, chatOps>>

\* err = c.chatRepo.AddParticipants(ctx, participants); return chatId
CreatePersonalChatAdd(p, ok) ==
    /\ chatCall[p].pc = "members"
    /\ partDocs' = IF ok
                   THEN AddParticipants(partDocs,
                            <<Participant(chatCall[p].id, chatCall[p].user,
                                          "member"),
                              Participant(chatCall[p].id, chatCall[p].other,
                                          "member")>>)
                   ELSE partDocs
    /\ chatLog' = chatLog \cup
           {ChatReturn(p, IF ok THEN "nil" ELSE "error",
                          IF ok THEN chatCall[p].id ELSE 0)}
    /\ chatCall' = [chatCall EXCEPT ![p] = NoChatCall]
    /\ UNCHANGED <<besideChat, chatDocs, invDocs, chatOps>>

NextPersonal ==
    \/ \E p \in ChatProcs, a \in PersonalUsers :
          \E b \in Users \ {a} : CreatePersonalChatGet(p, a, b)
    \/ \E p \in ChatProcs, ok \in BOOLEAN : CreatePersonalChatCreate(p, ok)
    \/ \E p \in ChatProcs, ok \in BOOLEAN : CreatePersonalChatAdd(p, ok)

SpecPersonal == Init /\ [][NextPersonal]_vars

\* The CreatePersonalChat calls for the pair {a, b} that returned a chat.
CreatedFor(a, b) ==
    {r \in chatLog : /\ r.op = "CreatePersonalChat" /\ r.err = "nil"
                     /\ {r.user, r.other} = {a, b}}

\* C40: CreatePersonalChat is idempotent per pair of users.  Whatever
\* CreatePersonalChat(a, b) and CreatePersonalChat(b, a) calls were made,
\* in sequence or overlapping, the store has at most one personal chat
\* with participants a and b, and every call that returned, returned the
\* id of that chat.
C40_OnePersonalChatPerPair ==
    \A a, b \in PersonalUsers :
        a # b =>
            /\ Cardinality(PersonalChatsBetween(chatDocs, partDocs, a, b)) <= 1
            /\ \A r \in CreatedFor(a, b) :
                  PersonalChatsBetween(chatDocs, partDocs, a, b) = {r.id}

\* CreatePersonalChat(A, B) and CreatePersonalChat(B, A) ran at the same
\* time and both returned nil, with different chat ids: the store has two
\* personal chats, each with participants A and B.
C40_Witness ==
    /\ \E r1, r2 \in CreatedFor("A", "B") :
          r1.user = "A" /\ r2.user = "B" /\ r1.id # r2.id
    /\ Cardinality(PersonalChatsBetween(chatDocs, partDocs, "A", "B")) = 2
    /\ \A p \in ChatProcs : chatCall[p] = NoChatCall

====
